---- MODULE Spec2Model ----
(***************************************************************************)
(* Model of the Live Display Engine of sms-led-display                     *)
(* (pi/renderer/main.py): the queue reconciliation rebuild_active_messages *)
(* as a pure function, and the Poller thread and the RenderLoop (run) as   *)
(* two interleaved processes sharing the shared_state dict.                *)
(*                                                                         *)
(* Text values (pk, message_id, body) are sequences of one-character       *)
(* strings, so that str.strip() is computed and not assumed: "" is <<>>,   *)
(* " a" is <<" ", "a">>.                                                   *)
(***************************************************************************)
EXTENDS Integers, Sequences, FiniteSets, TLC

\* ------------------------------------------------------------------------
\* Bounds of the model
\* ------------------------------------------------------------------------

\* Longest fetched list given to rebuild_active_messages in ReconcileSpec.
MaxFetched == 3

\* Number of polls the Poller makes in Spec.
MaxPolls == 2

\* Widest panel (canvas.width) of DisplaySpec, in pixels.
MaxPanelWidth == 4

\* Panel width in pixels (canvas.width) in Spec: the narrowest panel. The
\* frames of a scroll are there the steps the other threads interleave with;
\* DisplaySpec varies the width.
PanelWidth ==
    CHOOSE w \in 1 .. MaxPanelWidth : \A v \in 1 .. MaxPanelWidth : w <= v

\* Gap in pixels between two copies of the ticker text (ticker_gap_px).
TickerGap == 1

\* CadenceSpec starts no fetch from this time (in seconds) on.
MaxTime == 30

\* Widest measured main text of DisplaySpec, in pixels.
MaxTextWidth == 2

\* Widest measured ticker text of DisplaySpec, in pixels.
MaxTickerWidth == 2

\* Widest gap between the two copies of the ticker text in DisplaySpec, in
\* pixels.
MaxTickerGap == 2

\* Number of calls (of scroll_text or of the idle loop) DisplaySpec makes.
MaxCalls == 3

\* Longest message body given to apply_profanity_policy in PolicySpec.
MaxBody == 3

\* Deliveries of the Twilio webhook in CloudSpec.
MaxDeliveries == 3

\* Requests the moderation API takes in CloudSpec.
MaxRequests == 3

\* ------------------------------------------------------------------------
\* Constants of the program
\* ------------------------------------------------------------------------

\* requests.get(url, timeout=3): the longest a fetch takes, in seconds.
FetchTimeout == 3

\* DEFAULT_SETTINGS["poll_interval_sec"], in seconds.
PollInterval == 5

\* ------------------------------------------------------------------------
\* Text helpers
\* ------------------------------------------------------------------------

RECURSIVE lstrip(_)
lstrip(s) ==
    IF s # <<>> /\ Head(s) = " " THEN lstrip(Tail(s)) ELSE s

RECURSIVE rstrip(_)
rstrip(s) ==
    IF s # <<>> /\ s[Len(s)] = " " THEN rstrip(SubSeq(s, 1, Len(s) - 1)) ELSE s

\* str.strip(): leading and trailing whitespace removed.
strip(s) ==
    rstrip(lstrip(s))

\* str(msg.get("body", "")).strip()
body_of(msg) ==
    strip(msg.body)

\* msg.get("pk") or msg.get("message_id") or body   (an empty value is falsy)
get_message_id(msg) ==
    IF msg.pk # <<>> THEN msg.pk
    ELSE IF msg.message_id # <<>> THEN msg.message_id
    ELSE body_of(msg)

\* The ids of a list of messages, in list order.
ids_of(msgs) ==
    [i \in 1..Len(msgs) |-> get_message_id(msgs[i])]

\* The set of elements of a sequence.
Range(s) ==
    {s[i] : i \in 1..Len(s)}

\* ------------------------------------------------------------------------
\* The messages the feed may carry
\* ------------------------------------------------------------------------

Msg(pk, mid, body) ==
    [pk |-> pk, message_id |-> mid, body |-> body]

\* pk "a", body "x": id "a"
mA1 == Msg(<<"a">>, <<>>, <<"x">>)
\* the same id and the same trimmed body in another raw form (message_id set too)
mA2 == Msg(<<"a">>, <<"b">>, <<" ", "x">>)
\* the same id with a changed body
mA3 == Msg(<<"a">>, <<>>, <<"y">>)
\* no pk, no message_id: the id is the trimmed body, here "a" again
mA4 == Msg(<<>>, <<>>, <<" ", "a">>)
\* no pk: the id is the message_id "b"
mB == Msg(<<>>, <<"b">>, <<"x">>)
\* the id is the body "c"
mC == Msg(<<>>, <<>>, <<"c">>)
\* a backend id but a blank body
mBlank == Msg(<<"a">>, <<>>, <<" ">>)
\* nothing at all: empty body, hence empty id
mEmpty == Msg(<<>>, <<>>, <<>>)

Messages ==
    {mA1, mA2, mA3, mA4, mB, mC, mBlank, mEmpty}

\* An entry of a JSON list that is a string ("h") instead of an object.
mScalar == [scalar |-> <<"h">>]

\* Is this entry a dict, so that msg.get(...) of line 282 can be called?
is_dict(m) ==
    "scalar" \notin DOMAIN m

\* All lists over S of length at most n.
ListsUpTo(S, n) ==
    UNION {[1..k -> S] : k \in 0..n}

FetchedLists ==
    ListsUpTo(Messages, MaxFetched)

\* ------------------------------------------------------------------------
\* rebuild_active_messages
\* ------------------------------------------------------------------------

\* Lines 283-290: the three `continue` tests, negated. fetched_ids is always
\* the list of ids of cleaned (291-292 append to both).
accepts_wrong_no_dedup(cleaned, msg) ==
    /\ body_of(msg) # <<>>
    /\ get_message_id(msg) # <<>>

accepts_wrong_no_body_check(cleaned, msg) ==
    /\ get_message_id(msg) # <<>>
    /\ get_message_id(msg) \notin Range(ids_of(cleaned))

accepts(cleaned, msg) ==
    /\ body_of(msg) # <<>>
    /\ get_message_id(msg) # <<>>
    /\ get_message_id(msg) \notin Range(ids_of(cleaned))

RECURSIVE clean_loop(_, _, _)
clean_loop(fetched, i, cleaned) ==
    IF i > Len(fetched) THEN cleaned
    ELSE clean_loop(fetched, i + 1,
                    IF accepts(cleaned, fetched[i])
                    THEN Append(cleaned, fetched[i]) ELSE cleaned)

\* Lines 280-292 with a later entry replacing an earlier one of the same id.
clean_wrong_keep_last(fetched) ==
    LET ok(i) == /\ body_of(fetched[i]) # <<>>
                 /\ get_message_id(fetched[i]) # <<>>
        kept == {i \in 1..Len(fetched) :
                    /\ ok(i)
                    /\ \A j \in (i + 1)..Len(fetched) :
                           ~(ok(j) /\ get_message_id(fetched[j]) = get_message_id(fetched[i]))}
    IN  [k \in 1..Cardinality(kept) |->
            fetched[CHOOSE i \in kept : Cardinality({j \in kept : j <= i}) = k]]

\* Lines 280-292: clean and de-duplicate the fetched messages.
clean(fetched) ==
    clean_loop(fetched, 1, <<>>)

\* Line 299: {get_message_id(msg): msg for msg in cleaned}; a later entry
\* with the same key would overwrite an earlier one.
id_to_msg(cleaned) ==
    [k \in Range(ids_of(cleaned)) |->
        cleaned[CHOOSE i \in 1..Len(cleaned) :
                   /\ get_message_id(cleaned[i]) = k
                   /\ \A j \in (i + 1)..Len(cleaned) : get_message_id(cleaned[j]) # k]]

\* Line 303: the test that keeps an old entry.
still_live(oid, lookup, used_ids) ==
    oid \in DOMAIN lookup /\ oid \notin used_ids

\* Line 304: what is appended for a kept id.
kept_entry_wrong_old(old_msg, lookup) ==
    old_msg

kept_entry(old_msg, lookup) ==
    lookup[get_message_id(old_msg)]

\* Lines 301-305: walk the old queue in its order. acc = [new_active, used_ids].
RECURSIVE preserve_loop(_, _, _, _)
preserve_loop(active, i, lookup, acc) ==
    IF i > Len(active) THEN acc
    ELSE LET oid == get_message_id(active[i])
         IN  preserve_loop(active, i + 1, lookup,
                 IF still_live(oid, lookup, acc.used_ids)
                 THEN [new_active |-> Append(acc.new_active, kept_entry(active[i], lookup)),
                       used_ids |-> acc.used_ids \cup {oid}]
                 ELSE acc)

\* Lines 308-312: append the new messages in feed order.
RECURSIVE append_loop(_, _, _)
append_loop(cleaned, i, acc) ==
    IF i > Len(cleaned) THEN acc
    ELSE LET mid == get_message_id(cleaned[i])
         IN  append_loop(cleaned, i + 1,
                 IF mid \notin acc.used_ids
                 THEN [new_active |-> Append(acc.new_active, cleaned[i]),
                       used_ids |-> acc.used_ids \cup {mid}]
                 ELSE acc)

\* Lines 301-312 with the new messages put first: a plausible slip.
merge_wrong_new_first(active, cleaned) ==
    LET fresh == append_loop(cleaned, 1,
                     [new_active |-> <<>>,
                      used_ids |-> Range(ids_of(active))])
        old == preserve_loop(active, 1, id_to_msg(cleaned),
                     [new_active |-> <<>>, used_ids |-> {}])
    IN  fresh.new_active \o old.new_active

\* Lines 301-312 with the feed order winning over the old order.
merge_wrong_feed_order(active, cleaned) ==
    cleaned

\* Lines 301-312 with the stale entries kept.
merge_wrong_keep_stale(active, cleaned) ==
    LET old == [i \in 1..Len(active) |->
                   IF get_message_id(active[i]) \in DOMAIN id_to_msg(cleaned)
                   THEN id_to_msg(cleaned)[get_message_id(active[i])]
                   ELSE active[i]]
    IN  append_loop(cleaned, 1,
            [new_active |-> old, used_ids |-> Range(ids_of(active))]).new_active

\* Lines 301-312 without the used_ids test of line 310.
merge_wrong_append_all(active, cleaned) ==
    preserve_loop(active, 1, id_to_msg(cleaned),
        [new_active |-> <<>>, used_ids |-> {}]).new_active \o cleaned

\* Lines 294-312: preserved entries first, then the new ones.
merge(active, cleaned) ==
    append_loop(cleaned, 1,
        preserve_loop(active, 1, id_to_msg(cleaned),
            [new_active |-> <<>>, used_ids |-> {}])).new_active

\* Lines 267-314 without the loop of lines 308-312: a plausible slip.
rebuild_active_messages_wrong_no_new(active_messages, fetched_messages) ==
    preserve_loop(active_messages, 1, id_to_msg(clean(fetched_messages)),
        [new_active |-> <<>>, used_ids |-> {}]).new_active

\* Lines 267-314
rebuild_active_messages(active_messages, fetched_messages) ==
    merge(active_messages, clean(fetched_messages))

\* The queues the RenderLoop can hold: every queue is the result of a
\* reconciliation, and rebuild_active_messages(<<>>, F) ranges over all of them.
ReachableQueues ==
    {rebuild_active_messages(<<>>, F) : F \in FetchedLists}

\* ------------------------------------------------------------------------
\* State
\* ------------------------------------------------------------------------

VARIABLES
    \* shared_state: the dict shared by the Poller and the RenderLoop
    shared_state,
    \* Poller thread: position, the locals data and now, the wall clock
    p_pc, data, now, clock,
    \* RenderLoop: position and the locals of run()
    pc, messages, screen_muted, last_update,
    active_messages, active_index, played_cache, last_applied_update, pos_x,
    ticker_state,
    \* the colours given to message keys (message_color_map), the number of
    \* colours given (color_index), the colour of the main text
    \* (fonts["main_color"]), and what the last frame swapped in shows
    message_color_map, color_index, main_color, panel,
    \* the ids whose notification worker thread (mark_message_played.worker)
    \* has been started and has not ended
    workers,
    \* observers: what each poll cycle published (kept for the timestamps
    \* the RenderLoop holds or can still read), the notifications
    \* dispatched per id, the ids selected at least once, the ids of the
    \* messages shown last (at most as many as the queue is long) since the
    \* queue last changed
    published, notified, shown, rotation,
    \* observer: the idle loop was left by its break (line 466) and no apply
    \* step has followed yet
    idle_break,
    \* ReconcileSpec: one application of rebuild_active_messages
    rq_pc, rq_active, rq_fetched, rq_result, rq_again,
    \* FetchSpec: one call of fetch_live_messages
    fx_pc, fx_response, fx_result,
    \* CadenceSpec: the poller loop with the time each step takes
    cd_pc, cd_time, cd_starts,
    \* DisplaySpec: calls of scroll_text and of the idle loop with the time
    \* each frame takes: the settings, the text and its measured width, the
    \* locals pos_x and end_idle, the frames drawn by the call, the wall
    \* clock, ticker_state, the calls made, and what the last frame drew
    dp_pc, dp_settings, dp_text, dp_pos_x, dp_end_idle, dp_frames, dp_time,
    dp_ticker, dp_calls, dp_drawn,
    \* PolicySpec: one call of apply_profanity_policy: its four arguments and
    \* what it returns
    pp_pc, pp_body, pp_mode, pp_hard, pp_soft, pp_result,
    \* CloudSpec: the two DynamoDB tables, the text messages Twilio holds and
    \* the deliveries of its webhook, the approve request in progress (its
    \* position, its message_id, the body it read, the decision of the policy
    \* and its response), the approve requests taken, and the other
    \* requests the moderation API has taken
    MESSAGES_TABLE, SETTINGS_TABLE, twilio_sms, wh_deliveries,
    ap_pc, ap_message_id, ap_original_body, ap_policy, ap_response,
    ap_requests, api_requests,
    \* RotationSpec: the RenderLoop with a feed that may change before every
    \* iteration: its position, the local screen_muted, active_messages and
    \* active_index, whether the feed has reached the point from which on the
    \* watched message stays and the screen is not muted, and, since the
    \* watched message was last selected, the ids selected and the ids that
    \* have been in the queue all the time
    rt_pc, rt_screen_muted, rt_active_messages, rt_active_index, rt_stays,
    rt_between

poller_vars == <<p_pc, data, now, clock>>

colour_vars == <<message_color_map, color_index, main_color>>

render_vars == <<pc, messages, screen_muted, last_update, active_messages,
                 active_index, played_cache, last_applied_update, pos_x,
                 ticker_state, colour_vars, panel>>

observer_vars == <<published, notified, shown, idle_break>>
\* (rotation, the fourth observer, is listed apart: see other_vars)

rq_vars == <<rq_pc, rq_active, rq_fetched, rq_result, rq_again>>

fx_vars == <<fx_pc, fx_response, fx_result>>

\* The variables of the specifications of single functions.
cd_vars == <<cd_pc, cd_time, cd_starts>>

dp_vars == <<dp_pc, dp_settings, dp_text, dp_pos_x, dp_end_idle, dp_frames,
            dp_time, dp_ticker, dp_calls, dp_drawn>>

pp_vars == <<pp_pc, pp_body, pp_mode, pp_hard, pp_soft, pp_result>>

cl_vars == <<MESSAGES_TABLE, SETTINGS_TABLE, twilio_sms, wh_deliveries, ap_pc,
            ap_message_id, ap_original_body, ap_policy, ap_response,
            ap_requests, api_requests>>

rt_vars == <<rt_pc, rt_screen_muted, rt_active_messages, rt_active_index,
            rt_stays, rt_between>>

harness_vars == <<rq_vars, fx_vars, cd_vars, dp_vars, pp_vars, cl_vars,
                  rt_vars>>

\* What the steps that neither start nor end a worker, nor show a message,
\* leave alone.
other_vars == <<workers, rotation, harness_vars>>

\* What the steps of the RenderLoop that choose no colour and swap in no
\* frame leave alone as well.
quiet_vars == <<colour_vars, panel, other_vars>>

vars == <<shared_state, poller_vars, render_vars, workers, observer_vars, rotation,
         harness_vars>>

\* The message lists the feed answers with in Spec: empty; one message; a
\* second one joining; a reordered list with a blank entry, a changed body
\* and a repeated id; and a list whose entry is a string, not an object.
PollLists ==
    {<<>>, <<mA1>>, <<mA1, mC>>, <<mC, mBlank, mA3, mA1>>, <<mScalar>>}

\* The answers of the feed in Spec: each list with the screen unmuted, and
\* the two-message list with the screen muted.
PollAnswers ==
    {<<msgs, FALSE>> : msgs \in PollLists} \cup {<<(<<mA1, mC>>), TRUE>>}

Ids ==
    {get_message_id(m) : m \in Messages}

\* graphics.DrawText(...) returns the pixel width of the text drawn: here one
\* pixel per character.
DrawTextWidth(text) ==
    Len(text)

\* The ticker text of the settings (ticker_text).
TickerText ==
    <<"t">>

\* Lines 189-212: the ticker moves one pixel when its own delay has elapsed
\* (due), and wraps once its first copy has left the panel. last_step is
\* represented by due, the outcome of the test of line 195.
draw_and_step_ticker(ts, due) ==
    IF ts.text = <<>> THEN ts
    ELSE LET stepped == IF due THEN ts.pos_x - 1 ELSE ts.pos_x
             width == IF ts.width <= 0 THEN DrawTextWidth(ts.text) ELSE ts.width
         IN  [text |-> ts.text,
              pos_x |-> IF stepped + width < 0
                        THEN stepped + width + TickerGap ELSE stepped,
              width |-> width]

\* What requests.get(url, timeout=3) and resp.json() can come back with: no
\* connection, no answer in time, a status raise_for_status() rejects, a body
\* that is not JSON, or a JSON value.
NetworkError == [outcome |-> "network_error"]
Timeout      == [outcome |-> "timeout"]
HttpError    == [outcome |-> "http_error"]
Unparsable   == [outcome |-> "unparsable"]
Json(top)    == [outcome |-> "json", top |-> top]

\* Lines 332-341: color_cycle has eight colours, numbered here from 0.
ColorCycleLen == 8

\* Line 347: fonts["main_color"] starts as a colour object of its own.
DefaultColor == 0 - 1

\* Lines 342-350, 363-367, 384-399: the state run() builds before its loop.
InitProgram ==
    /\ shared_state = [messages |-> <<>>, screen_muted |-> FALSE, last_update |-> 0]
    /\ p_pc = "fetch"
    /\ data = [messages |-> <<>>, screen_muted |-> FALSE]
    /\ now = 0
    /\ clock = 0
    /\ pc = "read_messages"
    /\ messages = <<>>
    /\ screen_muted = FALSE
    /\ last_update = 0
    /\ active_messages = <<>>
    /\ active_index = 0
    /\ played_cache = {}
    /\ last_applied_update = 0
    /\ pos_x = 0
    /\ ticker_state = [text |-> TickerText, pos_x |-> PanelWidth,
                       width |-> DrawTextWidth(TickerText)]
    /\ published = [t \in {0} |-> [messages |-> <<>>, screen_muted |-> FALSE]]
    /\ message_color_map = <<>>
    /\ color_index = 0
    /\ main_color = DefaultColor
    /\ panel = "off"
    /\ notified = [i \in Ids |-> 0]
    /\ shown = {}
    /\ idle_break = FALSE
    /\ workers = {}
    /\ rotation = <<>>

InitReconcileIdle ==
    /\ rq_pc = "off"
    /\ rq_active = <<>>
    /\ rq_fetched = <<>>
    /\ rq_result = <<>>
    /\ rq_again = <<>>

InitFetchIdle ==
    /\ fx_pc = "off"
    /\ fx_response = Timeout
    /\ fx_result = [messages |-> <<>>, screen_muted |-> FALSE]

InitCadenceIdle ==
    /\ cd_pc = "off"
    /\ cd_time = 0
    /\ cd_starts = <<>>

InitDisplayIdle ==
    /\ dp_pc = "off"
    /\ dp_settings = <<>>
    /\ dp_text = <<>>
    /\ dp_pos_x = 0
    /\ dp_end_idle = 0
    /\ dp_frames = 0
    /\ dp_time = 0
    /\ dp_ticker = <<>>
    /\ dp_calls = 0
    /\ dp_drawn = <<>>

InitPolicyIdle ==
    /\ pp_pc = "off"
    /\ pp_body = <<>>
    /\ pp_mode = <<>>
    /\ pp_hard = <<>>
    /\ pp_soft = <<>>
    /\ pp_result = <<>>

InitCloudIdle ==
    /\ MESSAGES_TABLE = <<>>
    /\ SETTINGS_TABLE = <<>>
    /\ twilio_sms = <<>>
    /\ wh_deliveries = 0
    /\ ap_pc = "off"
    /\ ap_message_id = <<>>
    /\ ap_original_body = <<>>
    /\ ap_policy = <<>>
    /\ ap_response = <<>>
    /\ ap_requests = 0
    /\ api_requests = 0

InitRotationIdle ==
    /\ rt_pc = "off"
    /\ rt_screen_muted = FALSE
    /\ rt_active_messages = <<>>
    /\ rt_active_index = 0
    /\ rt_stays = FALSE
    /\ rt_between = <<>>

Init ==
    /\ InitProgram
    /\ InitReconcileIdle /\ InitFetchIdle /\ InitCadenceIdle
    /\ InitDisplayIdle /\ InitPolicyIdle /\ InitCloudIdle
    /\ InitRotationIdle

\* ------------------------------------------------------------------------
\* Poller (start_live_polling_thread.poller, lines 163-174)
\* ------------------------------------------------------------------------

\* JSON values, and Absent for a key the object does not have.
Absent          == [kind |-> "absent"]
JsonNull        == [kind |-> "null"]
JsonBool(b)     == [kind |-> "bool", b |-> b]
JsonNumber(n)   == [kind |-> "number", n |-> n]
JsonString(str) == [kind |-> "string", elems |-> str]
JsonList(elems) == [kind |-> "list", elems |-> elems]
JsonObject(msgs, items, muted) ==
    [kind |-> "object", messages |-> msgs, items |-> items, screen_muted |-> muted]

\* Python truth value of a JSON value (None for an absent key).
truthy(v) ==
    CASE v.kind \in {"absent", "null"} -> FALSE
      [] v.kind = "bool" -> v.b
      [] v.kind = "number" -> v.n # 0
      [] v.kind \in {"string", "list"} -> v.elems # <<>>

\* len(v) is defined for strings and lists only.
has_len(v) ==
    v.kind \in {"string", "list"}

\* What `for msg in v` yields: the elements of a list, the characters of a
\* string (each a string itself).
iteration(v) ==
    IF v.kind = "list" THEN v.elems
    ELSE [i \in 1..Len(v.elems) |-> [scalar |-> <<v.elems[i]>>]]

\* Lines 106-113: the value returned when nothing raised.
fetch_live_messages_ok(msgs, muted) ==
    [messages |-> msgs, screen_muted |-> muted]

\* Lines 115-117: any exception.
fetch_live_messages_failed ==
    [messages |-> <<>>, screen_muted |-> FALSE]

\* Line 104: data.get("messages") or data.get("items") or []
messages_or_items(top) ==
    IF truthy(top.messages) THEN top.messages
    ELSE IF truthy(top.items) THEN top.items
    ELSE JsonList(<<>>)

\* Lines 98-117. Lines 100-102 raise unless a JSON value arrived; line 104
\* raises when that value has no .get; line 107 raises when the messages
\* value has no len(). Everything else is returned as it came. The returned
\* messages are represented by what iterating them yields.
fetch_live_messages(resp) ==
    IF resp.outcome # "json" THEN fetch_live_messages_failed
    ELSE IF resp.top.kind # "object" THEN fetch_live_messages_failed
    ELSE IF ~has_len(messages_or_items(resp.top)) THEN fetch_live_messages_failed
    ELSE fetch_live_messages_ok(iteration(messages_or_items(resp.top)),
                                truthy(resp.top.screen_muted))

\* The answer of a healthy feed: {"messages": [...], "screen_muted": bool}
FeedAnswer(msgs, muted) ==
    Json(JsonObject(JsonList(msgs), Absent, JsonBool(muted)))

\* The main thread has ended with an uncaught exception (lines 481-484 catch
\* KeyboardInterrupt only); the Poller is a daemon thread (line 176) and
\* ends with it.
process_running ==
    pc # "crashed"

\* Lines 165-166: data = fetch_live_messages(...); now = time.time()
Fetch ==
    /\ process_running
    /\ p_pc = "fetch"
    /\ clock < MaxPolls
    /\ \/ \E answer \in PollAnswers :
              data' = fetch_live_messages(FeedAnswer(answer[1], answer[2]))
       \/ data' = fetch_live_messages(Timeout)
    /\ clock' = clock + 1
    /\ now' = clock + 1
    /\ published' = [t \in {shared_state.last_update, last_update, clock + 1} |->
                        IF t = clock + 1 THEN data' ELSE published[t]]
    /\ p_pc' = "write_messages"
    /\ UNCHANGED <<shared_state, render_vars, notified, shown, idle_break, other_vars>>

\* Line 170
WriteMessages ==
    /\ process_running
    /\ p_pc = "write_messages"
    /\ shared_state' = [shared_state EXCEPT !.messages = data.messages]
    /\ p_pc' = "write_muted"
    /\ UNCHANGED <<data, now, clock, render_vars, observer_vars, other_vars>>

\* Line 171
WriteMuted ==
    /\ process_running
    /\ p_pc = "write_muted"
    /\ shared_state' = [shared_state EXCEPT !.screen_muted = data.screen_muted]
    /\ p_pc' = "write_last_update"
    /\ UNCHANGED <<data, now, clock, render_vars, observer_vars, other_vars>>

\* Line 172
WriteLastUpdate ==
    /\ process_running
    /\ p_pc = "write_last_update"
    /\ shared_state' = [shared_state EXCEPT !.last_update = now]
    /\ p_pc' = "sleep"
    /\ UNCHANGED <<data, now, clock, render_vars, observer_vars, other_vars>>

\* Line 174: time.sleep(poll_interval) returns.
Sleep ==
    /\ process_running
    /\ p_pc = "sleep"
    /\ p_pc' = "fetch"
    /\ UNCHANGED <<shared_state, data, now, clock, render_vars, observer_vars,
                   other_vars>>

Poller ==
    Fetch \/ WriteMessages \/ WriteMuted \/ WriteLastUpdate \/ Sleep


\* ------------------------------------------------------------------------
\* RenderLoop (run, lines 401-477)
\* ------------------------------------------------------------------------

\* Line 403
ReadMessages ==
    /\ pc = "read_messages"
    /\ messages' = shared_state.messages
    /\ pc' = "read_muted"
    /\ UNCHANGED <<shared_state, poller_vars, screen_muted, last_update,
                   active_messages, active_index, played_cache,
                   last_applied_update, pos_x, ticker_state, observer_vars,
                   quiet_vars>>

\* Line 404
ReadMuted ==
    /\ pc = "read_muted"
    /\ screen_muted' = shared_state.screen_muted
    /\ pc' = "read_last_update"
    /\ UNCHANGED <<shared_state, poller_vars, messages, last_update,
                   active_messages, active_index, played_cache,
                   last_applied_update, pos_x, ticker_state, observer_vars,
                   quiet_vars>>

\* Line 405
ReadLastUpdate ==
    /\ pc = "read_last_update"
    /\ last_update' = shared_state.last_update
    /\ pc' = "apply"
    /\ published' = [t \in {shared_state.last_update, now} |-> published[t]]
    /\ UNCHANGED <<shared_state, poller_vars, messages, screen_muted,
                   active_messages, active_index, played_cache,
                   last_applied_update, pos_x, ticker_state, notified, shown,
                   idle_break, quiet_vars>>

\* Lines 412-416 with > for >=.
index_after_rebuild_wrong_off_by_one(index, queue) ==
    IF queue # <<>>
    THEN (IF index > Len(queue) THEN 0 ELSE index)
    ELSE 0

\* Lines 412-416 with the cursor set back on every rebuild.
index_after_rebuild_wrong_always_reset(index, queue) ==
    0

\* Lines 412-416: the cursor after a rebuild.
index_after_rebuild(index, queue) ==
    IF queue # <<>>
    THEN (IF index >= Len(queue) THEN 0 ELSE index)
    ELSE 0

\* Line 282: msg.get(...) raises AttributeError for an entry that is not a
\* dict; nothing in run() catches it.
rebuild_raises(fetched) ==
    \E i \in 1..Len(fetched) : ~is_dict(fetched[i])

\* Lines 408-423, rebuilding from shared_state["messages"] as it is now
\* instead of from the list read at line 403.
Apply_wrong_rereads_shared ==
    /\ pc = "apply"
    /\ IF last_update = last_applied_update
       THEN /\ pc' = "dispatch"
            /\ UNCHANGED <<active_messages, active_index, last_applied_update>>
       ELSE IF rebuild_raises(shared_state.messages)
       THEN /\ pc' = "crashed"
            /\ UNCHANGED <<active_messages, active_index, last_applied_update>>
       ELSE /\ active_messages' =
                   rebuild_active_messages(active_messages, shared_state.messages)
            /\ active_index' = index_after_rebuild(active_index, active_messages')
            /\ last_applied_update' = last_update
            /\ pc' = "dispatch"
    /\ rotation' = IF active_messages' = active_messages THEN rotation ELSE <<>>
    /\ idle_break' = FALSE
    /\ UNCHANGED <<shared_state, poller_vars, messages, screen_muted, last_update,
                   played_cache, pos_x, ticker_state, colour_vars, panel,
                   published, notified, shown, workers, harness_vars>>

\* Lines 408-423: rebuild the queue when the Poller has new data.
Apply ==
    /\ pc = "apply"
    /\ IF last_update = last_applied_update
       THEN /\ pc' = "dispatch"
            /\ UNCHANGED <<active_messages, active_index, last_applied_update>>
       ELSE IF rebuild_raises(messages)
       THEN /\ pc' = "crashed"
            /\ UNCHANGED <<active_messages, active_index, last_applied_update>>
       ELSE /\ active_messages' = rebuild_active_messages(active_messages, messages)
            /\ active_index' = index_after_rebuild(active_index, active_messages')
            /\ last_applied_update' = last_update
            /\ pc' = "dispatch"
    /\ rotation' = IF active_messages' = active_messages THEN rotation ELSE <<>>
    /\ idle_break' = FALSE
    /\ UNCHANGED <<shared_state, poller_vars, messages, screen_muted, last_update,
                   played_cache, pos_x, ticker_state, colour_vars, panel,
                   published, notified, shown, workers, harness_vars>>

\* Line 425: the mute test.
mute_observed_wrong_after_queue(muted, queue) ==
    muted /\ queue = <<>>

mute_observed(muted, queue) ==
    muted

\* Lines 425-430 followed by lines 455-458: the muted iteration advances the
\* cursor as if a message had been shown.
Muted_wrong_advances ==
    /\ pc = "dispatch"
    /\ mute_observed(screen_muted, active_messages)
    /\ panel' = "blank"
    /\ pc' = "read_messages"
    /\ active_index' = IF active_messages # <<>>
                       THEN (active_index + 1) % Len(active_messages) ELSE 0
    /\ UNCHANGED <<shared_state, poller_vars, messages, screen_muted, last_update,
                   active_messages, played_cache,
                   last_applied_update, pos_x, ticker_state, colour_vars,
                   observer_vars, other_vars>>

\* Lines 425-430: a blank frame, a short sleep, back to the loop head.
Muted ==
    /\ pc = "dispatch"
    /\ mute_observed(screen_muted, active_messages)
    /\ panel' = "blank"
    /\ pc' = "read_messages"
    /\ UNCHANGED <<shared_state, poller_vars, messages, screen_muted, last_update,
                   active_messages, active_index, played_cache,
                   last_applied_update, pos_x, ticker_state, colour_vars,
                   observer_vars, other_vars>>

\* Line 438: is a played-notification due for this id?
notification_due_wrong_always(msg_id, cache) ==
    msg_id # <<>>

notification_due(msg_id, cache) ==
    msg_id # <<>> /\ msg_id \notin cache

\* Line 441: played_cache.add(msg_id)
played_cache_add_wrong_replace(cache, msg_id) ==
    {msg_id}

played_cache_add(cache, msg_id) ==
    cache \cup {msg_id}

\* Lines 455-458, advancing by two.
index_after_show_wrong_skip(index, queue) ==
    IF queue # <<>> THEN (index + 2) % Len(queue) ELSE 0

\* Lines 455-458: the cursor after a message was shown.
index_after_show(index, queue) ==
    IF queue # <<>> THEN (index + 1) % Len(queue) ELSE 0

\* Line 445: key = msg_id or body
color_key(msg_id, body) ==
    IF msg_id # <<>> THEN msg_id ELSE body

\* Lines 446-447 with the colour of a key chosen again every time the key is
\* selected.
color_map_after_wrong_reassign(map, index, key) ==
    [k \in DOMAIN map \cup {key} |->
        IF k = key THEN index % ColorCycleLen ELSE map[k]]

\* Lines 446-447: a key without a colour gets color_cycle[color_index % 8].
color_map_after(map, index, key) ==
    IF key \in DOMAIN map THEN map
    ELSE [k \in DOMAIN map \cup {key} |->
             IF k = key THEN index % ColorCycleLen ELSE map[k]]

\* Line 448: color_index += 1, for a key without a colour only.
color_index_after(map, index, key) ==
    IF key \in DOMAIN map THEN index ELSE index + 1

\* The ids shown last, msg_id joining them: at most n are kept.
last_shown(log, msg_id, n) ==
    IF Len(log) < n THEN Append(log, msg_id) ELSE Append(Tail(log), msg_id)

\* Lines 432-452 up to the first frame: take the message at the cursor,
\* dispatch its played-notification if it is due (mark_message_played,
\* 120-145, returns at once), and enter scroll_text (223-243).
Select ==
    /\ pc = "dispatch"
    /\ ~mute_observed(screen_muted, active_messages)
    /\ active_messages # <<>>
    /\ LET msg == active_messages[active_index + 1]
           msg_id == get_message_id(msg)
           body == body_of(msg)
       IN  /\ IF notification_due(msg_id, played_cache)
              THEN /\ notified' = [notified EXCEPT ![msg_id] = @ + 1]
                   /\ workers' = workers \cup {msg_id}
                   /\ played_cache' = played_cache_add(played_cache, msg_id)
              ELSE UNCHANGED <<notified, workers, played_cache>>
           /\ shown' = shown \cup {msg_id}
           /\ IF body # <<>>
              THEN /\ message_color_map' =
                          color_map_after(message_color_map, color_index,
                                          color_key(msg_id, body))
                   /\ color_index' =
                          color_index_after(message_color_map, color_index,
                                            color_key(msg_id, body))
                   /\ main_color' = message_color_map'[color_key(msg_id, body)]
                   /\ pos_x' = PanelWidth
                   /\ pc' = "scroll"
                   /\ rotation' = last_shown(rotation, msg_id, Len(active_messages))
                   /\ UNCHANGED active_index
              ELSE /\ active_index' = index_after_show(active_index, active_messages)
                   /\ pc' = "read_messages"
                   /\ UNCHANGED <<pos_x, rotation, colour_vars>>
    /\ UNCHANGED <<shared_state, poller_vars, messages, screen_muted, last_update,
                   active_messages, last_applied_update, ticker_state, panel,
                   published, idle_break, harness_vars>>

\* The text scroll_text is scrolling: the body of the message at the cursor.
scrolling_text ==
    body_of(active_messages[active_index + 1])

\* Lines 245-260 with a mute test in the loop: a scroll in progress is given
\* up for a blank frame as soon as shared_state says muted.
ScrollFrame_wrong_checks_mute ==
    /\ pc = "scroll"
    /\ pos_x + DrawTextWidth(scrolling_text) > 0
    /\ IF shared_state.screen_muted
       THEN /\ pc' = "read_messages"
            /\ panel' = "blank"
            /\ UNCHANGED <<pos_x, ticker_state>>
       ELSE /\ pos_x' = pos_x - 1
            /\ \E due \in BOOLEAN :
                   ticker_state' = draw_and_step_ticker(ticker_state, due)
            /\ panel' = "message"
            /\ UNCHANGED pc
    /\ UNCHANGED <<shared_state, poller_vars, messages, screen_muted, last_update,
                   active_messages, active_index, played_cache,
                   last_applied_update, colour_vars, observer_vars, other_vars>>

\* Lines 245-260: one frame of the main scroll.
ScrollFrame ==
    /\ pc = "scroll"
    /\ pos_x + DrawTextWidth(scrolling_text) > 0
    /\ pos_x' = pos_x - 1
    /\ \E due \in BOOLEAN : ticker_state' = draw_and_step_ticker(ticker_state, due)
    /\ panel' = "message"
    /\ UNCHANGED <<shared_state, poller_vars, pc, messages, screen_muted, last_update,
                   active_messages, active_index, played_cache,
                   last_applied_update, colour_vars, observer_vars, other_vars>>

\* ScrollDone with the played-notification sent once the scroll has ended.
ScrollDone_wrong_notify_after ==
    /\ pc = "scroll"
    /\ ~(pos_x + DrawTextWidth(scrolling_text) > 0)
    /\ active_index' = index_after_show(active_index, active_messages)
    /\ notified' = [notified EXCEPT
                       ![get_message_id(active_messages[active_index + 1])] = @ + 1]
    /\ pc' = "read_messages"
    /\ UNCHANGED <<shared_state, poller_vars, messages, screen_muted, last_update,
                   active_messages, played_cache, last_applied_update, pos_x,
                   ticker_state, published, shown, idle_break, quiet_vars>>

\* Line 245 false: scroll_text returns; lines 455-458 advance the cursor.
ScrollDone ==
    /\ pc = "scroll"
    /\ ~(pos_x + DrawTextWidth(scrolling_text) > 0)
    /\ active_index' = index_after_show(active_index, active_messages)
    /\ pc' = "read_messages"
    /\ UNCHANGED <<shared_state, poller_vars, messages, screen_muted, last_update,
                   active_messages, played_cache, last_applied_update, pos_x,
                   ticker_state, observer_vars, quiet_vars>>

\* Lines 460-462: no live messages, start the ticker-only idle animation.
EnterIdle ==
    /\ pc = "dispatch"
    /\ ~mute_observed(screen_muted, active_messages)
    /\ active_messages = <<>>
    /\ pc' = "idle"
    /\ UNCHANGED <<shared_state, poller_vars, messages, screen_muted, last_update,
                   active_messages, active_index, played_cache,
                   last_applied_update, pos_x, ticker_state, observer_vars,
                   quiet_vars>>

\* Lines 463-477 without the test of lines 465-466: the idle loop is left
\* only when the idle time is over.
IdleFrame_wrong_no_break ==
    /\ pc = "idle"
    /\ \/ /\ pc' = "read_messages"
          /\ UNCHANGED <<ticker_state, panel, idle_break>>
       \/ /\ pc' = "idle"
          /\ \E due \in BOOLEAN :
                 ticker_state' = draw_and_step_ticker(ticker_state, due)
          /\ panel' = "ticker"
          /\ UNCHANGED idle_break
    /\ UNCHANGED <<shared_state, poller_vars, messages, screen_muted, last_update,
                   active_messages, active_index, played_cache,
                   last_applied_update, pos_x, colour_vars, published, notified,
                   shown, other_vars>>

\* Lines 463-477: one turn of the idle loop. The idle time is over (463), or
\* new data has arrived (465-466), or one more ticker frame is drawn.
IdleFrame ==
    /\ pc = "idle"
    /\ \/ /\ pc' = "read_messages"
          /\ UNCHANGED <<ticker_state, panel, idle_break>>
       \/ /\ shared_state.last_update # last_applied_update
          /\ pc' = "read_messages"
          /\ idle_break' = TRUE
          /\ UNCHANGED <<ticker_state, panel>>
       \/ /\ shared_state.last_update = last_applied_update
          /\ pc' = "idle"
          /\ \E due \in BOOLEAN :
                 ticker_state' = draw_and_step_ticker(ticker_state, due)
          /\ panel' = "ticker"
          /\ UNCHANGED idle_break
    /\ UNCHANGED <<shared_state, poller_vars, messages, screen_muted, last_update,
                   active_messages, active_index, played_cache,
                   last_applied_update, pos_x, colour_vars, published, notified,
                   shown, other_vars>>

\* Lines 130-141: the POST of a worker is answered (200 or another status,
\* which is printed); the thread ends.
WorkerReturns ==
    /\ process_running
    /\ \E msg_id \in workers : workers' = workers \ {msg_id}
    /\ UNCHANGED <<shared_state, poller_vars, render_vars, observer_vars, rotation,
                   harness_vars>>

\* Lines 142-143, with a failed worker's message put back among the ids not
\* yet played, to be notified again.
WorkerFails_wrong_retry ==
    /\ process_running
    /\ \E msg_id \in workers :
           /\ workers' = workers \ {msg_id}
           /\ played_cache' = played_cache \ {msg_id}
    /\ UNCHANGED <<shared_state, poller_vars, pc, messages, screen_muted,
                   last_update, active_messages, active_index,
                   last_applied_update, pos_x, ticker_state, colour_vars, panel,
                   observer_vars, rotation, harness_vars>>

\* Lines 142-143: the POST of a worker raises (no connection, or no answer
\* within timeout=1); the exception is printed and the thread ends.
WorkerFails ==
    /\ process_running
    /\ \E msg_id \in workers : workers' = workers \ {msg_id}
    /\ UNCHANGED <<shared_state, poller_vars, render_vars, observer_vars, rotation,
                   harness_vars>>

Workers ==
    WorkerReturns \/ WorkerFails

RenderLoop ==
    \/ ReadMessages \/ ReadMuted \/ ReadLastUpdate \/ Apply
    \/ Muted \/ Select \/ ScrollFrame \/ ScrollDone \/ EnterIdle \/ IdleFrame

Next ==
    Poller \/ RenderLoop \/ Workers

Spec ==
    Init /\ [][Next]_vars


\* ------------------------------------------------------------------------
\* ReconcileSpec: rebuild_active_messages applied to every reachable queue
\* and every fetched list within the bounds, then applied again to its result
\* ------------------------------------------------------------------------

InitReconcile ==
    /\ InitProgram
    /\ InitFetchIdle
    /\ InitCadenceIdle
    /\ InitDisplayIdle
    /\ InitPolicyIdle
    /\ InitCloudIdle
    /\ InitRotationIdle
    /\ rq_pc = "start"
    /\ rq_active \in ReachableQueues
    /\ rq_fetched \in FetchedLists
    /\ rq_result = <<>>
    /\ rq_again = <<>>

Rebuild ==
    /\ rq_pc = "start"
    /\ rq_result' = rebuild_active_messages(rq_active, rq_fetched)
    /\ rq_pc' = "done"
    /\ UNCHANGED <<shared_state, poller_vars, render_vars, observer_vars,
                   rq_active, rq_fetched, rq_again, workers, rotation, fx_vars,
                   cd_vars, dp_vars, pp_vars, cl_vars, rt_vars>>

RebuildAgain ==
    /\ rq_pc = "done"
    /\ rq_again' = rebuild_active_messages(rq_result, rq_fetched)
    /\ rq_pc' = "again"
    /\ UNCHANGED <<shared_state, poller_vars, render_vars, observer_vars,
                   rq_active, rq_fetched, rq_result, workers, rotation, fx_vars,
                   cd_vars, dp_vars, pp_vars, cl_vars, rt_vars>>

NextReconcile ==
    Rebuild \/ RebuildAgain

ReconcileSpec ==
    InitReconcile /\ [][NextReconcile]_vars


\* ------------------------------------------------------------------------
\* FetchSpec: fetch_live_messages called once, for every answer the feed
\* endpoint can give within the response shapes below
\* ------------------------------------------------------------------------

\* Values of the "messages" key.
MessagesFields ==
    {Absent, JsonNull, JsonNumber(0), JsonNumber(5),
     JsonString(<<>>), JsonString(<<"h", "i">>),
     JsonList(<<>>), JsonList(<<mA1, mC>>), JsonList(<<mScalar>>),
     JsonList(<<mA1, mScalar>>)}

\* Values of the "items" key.
ItemsFields ==
    {Absent, JsonNumber(5), JsonList(<<mA1>>), JsonList(<<mScalar>>)}

\* Values of the "screen_muted" key.
MutedFields ==
    {Absent, JsonNull, JsonBool(TRUE), JsonBool(FALSE), JsonNumber(0),
     JsonString(<<"n", "o">>)}

Responses ==
    {NetworkError, Timeout, HttpError, Unparsable}
    \cup {Json(v) : v \in {JsonNull, JsonNumber(5), JsonString(<<"h", "i">>),
                           JsonList(<<mA1>>)}}
    \cup {Json(JsonObject(m, i, s)) :
              m \in MessagesFields, i \in ItemsFields, s \in MutedFields}

InitFetch ==
    /\ InitProgram
    /\ InitReconcileIdle
    /\ InitCadenceIdle
    /\ InitDisplayIdle
    /\ InitPolicyIdle
    /\ InitCloudIdle
    /\ InitRotationIdle
    /\ fx_pc = "start"
    /\ fx_response \in Responses
    /\ fx_result = [messages |-> <<>>, screen_muted |-> FALSE]

\* The call of line 165.
CallFetch ==
    /\ fx_pc = "start"
    /\ fx_result' = fetch_live_messages(fx_response)
    /\ fx_pc' = "done"
    /\ UNCHANGED <<shared_state, poller_vars, render_vars, observer_vars,
                   workers, rotation,
                   rq_vars, cd_vars, dp_vars, pp_vars, cl_vars, rt_vars,
                   fx_response>>

NextFetch ==
    CallFetch

FetchSpec ==
    InitFetch /\ [][NextFetch]_vars


\* ------------------------------------------------------------------------
\* CadenceSpec: the poller loop (lines 163-174) with the time its steps take,
\* in seconds: a fetch takes between 0 and the request timeout, the writes
\* take no time, the sleep takes the poll interval
\* ------------------------------------------------------------------------

InitCadence ==
    /\ InitProgram
    /\ InitReconcileIdle
    /\ InitFetchIdle
    /\ InitDisplayIdle
    /\ InitPolicyIdle
    /\ InitCloudIdle
    /\ InitRotationIdle
    /\ cd_pc = "fetch"
    /\ cd_time = 0
    /\ cd_starts = <<>>

\* Lines 165-172: a fetch starts now and returns d seconds later; the three
\* writes follow at once. cd_starts keeps the start times of the last two
\* fetches.
TimedFetch ==
    /\ cd_pc = "fetch"
    /\ cd_time < MaxTime
    /\ cd_starts' = IF Len(cd_starts) < 2 THEN Append(cd_starts, cd_time)
                    ELSE <<cd_starts[2], cd_time>>
    /\ \E d \in 0..FetchTimeout : cd_time' = cd_time + d
    /\ cd_pc' = "sleep"
    /\ UNCHANGED <<shared_state, poller_vars, render_vars, observer_vars, workers,
                   rotation, rq_vars, fx_vars, dp_vars, pp_vars,
                   cl_vars, rt_vars>>

\* Line 174: time.sleep(poll_interval)
TimedSleep ==
    /\ cd_pc = "sleep"
    /\ cd_time' = cd_time + PollInterval
    /\ cd_pc' = "fetch"
    /\ UNCHANGED <<shared_state, poller_vars, render_vars, observer_vars, workers,
                   rotation, rq_vars, fx_vars, dp_vars, pp_vars,
                   cl_vars, rt_vars,
                   cd_starts>>

NextCadence ==
    TimedFetch \/ TimedSleep

CadenceSpec ==
    InitCadence /\ [][NextCadence]_vars


\* ------------------------------------------------------------------------
\* Properties of rebuild_active_messages (ReconcileSpec)
\* ------------------------------------------------------------------------

\* A message as the display sees it: its id and its trimmed body.
View(m) ==
    [id |-> get_message_id(m), body |-> body_of(m)]

Views(msgs) ==
    [i \in 1..Len(msgs) |-> View(msgs[i])]

\* An entry of a fetched list that may be displayed.
Valid(m) ==
    body_of(m) # <<>> /\ get_message_id(m) # <<>>

ValidIds(fetched) ==
    {get_message_id(fetched[i]) : i \in {j \in 1..Len(fetched) : Valid(fetched[j])}}

IdSet(msgs) ==
    {get_message_id(msgs[i]) : i \in 1..Len(msgs)}

DuplicateFree(msgs) ==
    \A i, j \in 1..Len(msgs) : get_message_id(msgs[i]) = get_message_id(msgs[j]) => i = j

\* The entries of queue whose id is in keep, in the order of queue.
FilterByIds(queue, keep) ==
    LET test(m) == get_message_id(m) \in keep
    IN  SelectSeq(queue, test)

\* fetched holds only ids of queue, each with the body queue has for it.
SubsetUnchanged(queue, fetched) ==
    /\ ValidIds(fetched) \subseteq IdSet(queue)
    /\ \A i \in 1..Len(fetched), j \in 1..Len(queue) :
           (Valid(fetched[i]) /\ get_message_id(fetched[i]) = get_message_id(queue[j]))
               => body_of(fetched[i]) = body_of(queue[j])

\* The position of the first occurrence of entry e in fetched.
FirstOccurrence(fetched, e) ==
    CHOOSE i \in 1..Len(fetched) :
        fetched[i] = e /\ \A j \in 1..(i - 1) : fetched[j] # e

\* C1: for a duplicate-free previous queue and a fetched list whose valid ids
\* are a subset of the queue's ids with unchanged bodies, the result is the
\* previous queue filtered to that subset, in the queue's order (ids and
\* bodies as displayed); the order of the feed has no influence.
C1_OrderPreserving ==
    (rq_pc = "done" /\ DuplicateFree(rq_active) /\ SubsetUnchanged(rq_active, rq_fetched))
        => Views(rq_result) = Views(FilterByIds(rq_active, ValidIds(rq_fetched)))

\* C1 witness: two kept entries arrive in the opposite order of the queue, one
\* queue entry is not in the feed, and the queue's order comes out.
C1_Witness ==
    /\ rq_pc = "done"
    /\ SubsetUnchanged(rq_active, rq_fetched)
    /\ Len(rq_active) = 3
    /\ Len(rq_result) = 2
    /\ Len(rq_fetched) >= 2
    /\ get_message_id(rq_fetched[1]) = get_message_id(rq_result[2])
    /\ get_message_id(rq_fetched[2]) = get_message_id(rq_result[1])

\* C2: in the result every entry whose id was not in the previous queue comes
\* after every entry whose id was in it, and the new entries are in the order
\* of their first occurrence in the fetched list.
C2_NewAfterPreserved ==
    rq_pc = "done" =>
        \A i, j \in 1..Len(rq_result) :
            LET old(k) == get_message_id(rq_result[k]) \in IdSet(rq_active)
            IN  /\ (old(i) /\ ~old(j)) => i < j
                /\ (~old(i) /\ ~old(j) /\ i < j) =>
                       FirstOccurrence(rq_fetched, rq_result[i])
                           < FirstOccurrence(rq_fetched, rq_result[j])

\* C2 witness: the feed lists two new messages before a preserved one; the
\* preserved one stays first and the new ones follow in feed order.
C2_Witness ==
    /\ rq_pc = "done"
    /\ Len(rq_result) = 3
    /\ get_message_id(rq_result[1]) \in IdSet(rq_active)
    /\ get_message_id(rq_result[2]) \notin IdSet(rq_active)
    /\ get_message_id(rq_result[3]) \notin IdSet(rq_active)
    /\ rq_fetched = <<rq_result[2], rq_result[3], rq_result[1]>>

\* C3: an id of the previous queue that is the id of no valid fetched entry
\* is not in the result; an empty fetched list gives an empty queue.
C3_StaleDropped ==
    rq_pc = "done" =>
        /\ \A i \in 1..Len(rq_active) :
               get_message_id(rq_active[i]) \notin ValidIds(rq_fetched)
                   => get_message_id(rq_active[i]) \notin IdSet(rq_result)
        /\ rq_fetched = <<>> => rq_result = <<>>

\* C3 witness: one id of the queue is gone from the feed while another stays.
C3_Witness ==
    /\ rq_pc = "done"
    /\ \E i, j \in 1..Len(rq_active) :
           /\ get_message_id(rq_active[i]) \notin ValidIds(rq_fetched)
           /\ get_message_id(rq_active[j]) \in IdSet(rq_result)
           /\ i < j

\* C4: reconciliation is idempotent: reconciling the result with the same
\* fetched list again gives the same queue, entry for entry.
C4_Idempotent ==
    rq_pc = "again" => rq_again = rq_result

\* C4 witness: the first reconciliation dropped, kept and appended entries,
\* and its result is not the feed order.
C4_Witness ==
    /\ rq_pc = "again"
    /\ Len(rq_result) >= 2
    /\ rq_result # rq_active
    /\ IdSet(rq_active) \ IdSet(rq_result) # {}
    /\ IdSet(rq_result) \ IdSet(rq_active) # {}
    /\ get_message_id(rq_result[1]) # get_message_id(rq_fetched[1])

\* The positions of fetched whose entry derives the id k.
Deriving(fetched, k) ==
    {i \in 1..Len(fetched) : get_message_id(fetched[i]) = k}

\* The entries of the result with id k.
ResultEntries(k) ==
    {i \in 1..Len(rq_result) : get_message_id(rq_result[i]) = k}

Least(S) ==
    CHOOSE i \in S : \A j \in S : i <= j

\* C5 as claimed: when several fetched entries derive the same id, the result
\* holds exactly one entry for that id, the first such entry in feed order.
C5_FirstOfAllKept ==
    rq_pc = "done" =>
        \A k \in IdSet(rq_fetched) :
            Cardinality(Deriving(rq_fetched, k)) >= 2 =>
                /\ Cardinality(ResultEntries(k)) = 1
                /\ \A i \in ResultEntries(k) :
                       rq_result[i] = rq_fetched[Least(Deriving(rq_fetched, k))]

\* C5 amended: when several fetched entries derive the same id, the result
\* holds exactly one entry for that id if one of them has a non-empty trimmed
\* body, and it is the first of those in feed order; a later one never
\* replaces it. When all of them have an empty trimmed body it holds none.
C5_FirstValidKept ==
    rq_pc = "done" =>
        \A k \in IdSet(rq_fetched) :
            Cardinality(Deriving(rq_fetched, k)) >= 2 =>
                LET valid == {i \in Deriving(rq_fetched, k) : Valid(rq_fetched[i])}
                IN  IF valid = {}
                    THEN ResultEntries(k) = {}
                    ELSE /\ Cardinality(ResultEntries(k)) = 1
                         /\ \A i \in ResultEntries(k) :
                                rq_result[i] = rq_fetched[Least(valid)]

\* C5 witness: two different valid entries with one id, the id already in the
\* queue, and the result holds the first of them.
C5_Witness ==
    /\ rq_pc = "done"
    /\ \E i, j \in 1..Len(rq_fetched) :
           /\ i < j
           /\ Valid(rq_fetched[i]) /\ Valid(rq_fetched[j])
           /\ get_message_id(rq_fetched[i]) = get_message_id(rq_fetched[j])
           /\ rq_fetched[i] # rq_fetched[j]
           /\ get_message_id(rq_fetched[i]) \in IdSet(rq_active)
           /\ \A h \in 1..(i - 1) :
                  get_message_id(rq_fetched[h]) # get_message_id(rq_fetched[i])
           /\ rq_fetched[i] \in Range(rq_result)

\* C6: no fetched entry with an empty trimmed body or an empty derived id is
\* in the result, and every entry of the result has both, whatever the
\* previous queue held.
C6_NoEmptyEntries ==
    rq_pc = "done" =>
        /\ \A i \in 1..Len(rq_fetched) :
               ~Valid(rq_fetched[i]) => rq_fetched[i] \notin Range(rq_result)
        /\ \A i \in 1..Len(rq_result) : Valid(rq_result[i])

\* C6 witness: the feed holds a blank entry under an id the queue already
\* had, and an entry with no id at all, beside a valid one.
C6_Witness ==
    /\ rq_pc = "done"
    /\ rq_result # <<>>
    /\ \E i, j \in 1..Len(rq_fetched) :
           /\ body_of(rq_fetched[i]) = <<>>
           /\ get_message_id(rq_fetched[i]) \in IdSet(rq_active)
           /\ get_message_id(rq_fetched[i]) \notin IdSet(rq_result)
           /\ get_message_id(rq_fetched[j]) = <<>>


\* ------------------------------------------------------------------------
\* Properties of the Poller and the RenderLoop (Spec)
\* ------------------------------------------------------------------------

\* C7: in every reachable state the active queue holds no two entries with
\* the same id, and every entry has a non-empty id and a non-empty trimmed
\* body.
C7_QueueWellFormed ==
    /\ DuplicateFree(active_messages)
    /\ \A i \in 1..Len(active_messages) : Valid(active_messages[i])

\* C7 witness: a feed with a blank entry and a repeated id has been applied
\* to a non-empty queue after an earlier poll.
C7_Witness ==
    /\ pc = "dispatch"
    /\ last_applied_update = 2
    /\ messages = <<mC, mBlank, mA3, mA1>>
    /\ active_messages = <<mA3, mC>>

\* C8 as claimed: the triple (messages, screen_muted, last_update) the
\* RenderLoop has read at the top of an iteration is a triple that one poll
\* cycle published together (or the initial shared_state).
C8_NoTornSnapshot ==
    pc = "apply" =>
        published[last_update] = [messages |-> messages, screen_muted |-> screen_muted]

\* C9: no main-message scroll runs in an iteration that observed
\* screen_muted = TRUE, whatever the queue and the cursor are: a scroll starts
\* only in an iteration that observed screen_muted = FALSE.
C9_MuteTakesPrecedence ==
    pc = "scroll" => ~screen_muted

\* C9 witness: a Muted iteration has just ended with a non-empty queue.
C9_Witness ==
    /\ pc = "read_messages"
    /\ screen_muted
    /\ active_messages # <<>>

\* C10: exactly one played-notification has been dispatched for every id
\* that has been selected, however often it was selected, and none for an id
\* never selected.
C10_PlayedOnce ==
    \A k \in Ids : notified[k] = (IF k \in shown THEN 1 ELSE 0)

\* C10 witness: after a single poll (both ids have been in the queue ever
\* since they entered) the first message of the queue is scrolling again,
\* after the second one has been shown.
C10_Witness ==
    /\ clock = 1
    /\ pc = "scroll"
    /\ Len(active_messages) = 2
    /\ active_index = 0
    /\ shown = IdSet(active_messages)
    /\ notified[get_message_id(active_messages[1])] = 1


\* The ids for which at least one played-notification has been dispatched.
NotifiedIds ==
    {k \in Ids : notified[k] >= 1}

C12_NotifyBeforeFirstFrame ==
    [][notified' # notified =>
          /\ pc = "dispatch"
          /\ pc' = "scroll"
          /\ pos_x' = PanelWidth
          /\ notified' = [notified EXCEPT
                 ![get_message_id(active_messages'[active_index' + 1])] = @ + 1]]_vars

\* C12 witness: the first message of a queue of two has just been selected
\* for the first time: notified, and no frame drawn yet.
C12_Witness ==
    /\ clock = 1
    /\ pc = "scroll"
    /\ pos_x = PanelWidth
    /\ Len(active_messages) = 2
    /\ active_index = 0
    /\ played_cache = {get_message_id(active_messages[1])}
    /\ notified[get_message_id(active_messages[1])] = 1


\* C13: reconciliation precedes selection. A message is selected only from
\* the dispatch point of an iteration; there the applied timestamp equals the
\* last_update read at the top of the iteration; the queue selected from is
\* the one the apply step of the same iteration left, which is the
\* reconciliation of the previous queue with the messages read in that
\* iteration, or the previous queue when the timestamp had not changed; and
\* the values read are not touched between the apply step and the selection.
C13_ReconcileBeforeSelect ==
    /\ [](pc \in {"dispatch", "scroll"} => last_applied_update = last_update)
    /\ [][(pc # "scroll" /\ pc' = "scroll") =>
              /\ pc = "dispatch"
              /\ UNCHANGED <<active_messages, messages, last_update,
                             last_applied_update>>]_vars
    /\ [][(pc = "apply" /\ pc' = "dispatch") =>
              /\ active_messages' =
                     IF last_update # last_applied_update
                     THEN rebuild_active_messages(active_messages, messages)
                     ELSE active_messages
              /\ UNCHANGED <<messages, last_update>>]_vars

\* A message is being selected right after a reconciliation that dropped,
\* kept and added entries.
C13_Witness ==
    /\ pc = "scroll"
    /\ pos_x = PanelWidth
    /\ last_update = 2
    /\ messages = <<mC, mBlank, mA3, mA1>>
    /\ active_messages = <<mA3, mC>>
    /\ active_index = 1
\* What the Poller may publish: a list of message objects and a boolean.
WellFormedFeed(d) ==
    /\ \A i \in 1..Len(d.messages) : is_dict(d.messages[i])
    /\ d.screen_muted \in BOOLEAN

\* A response that is a failure: no JSON arrived, or the JSON is not an
\* object, or the value taken for the messages is not a list of objects.
FetchFailure(resp) ==
    \/ resp.outcome # "json"
    \/ resp.top.kind # "object"
    \/ messages_or_items(resp.top).kind # "list"
    \/ \E i \in 1..Len(messages_or_items(resp.top).elems) :
           ~is_dict(messages_or_items(resp.top).elems[i])

\* C14 as claimed: fetch_live_messages answers every failure, a response of
\* the wrong shape included, with the empty list and screen_muted false, so
\* that what it returns is always a list of well-formed messages and a
\* boolean.
C14_FetchFailsSafe ==
    fx_pc = "done" =>
        /\ FetchFailure(fx_response) => fx_result = fetch_live_messages_failed
        /\ WellFormedFeed(fx_result)
\* C15 as claimed: whatever the feed answers and whatever becomes of the
\* notifications, the RenderLoop is never crashed or blocked: in every
\* reachable state it has a next step.
C15_RenderLoopKeepsIterating ==
    ENABLED RenderLoop

\* C16 as claimed: the Poller has no terminal state: whatever the outcome of
\* the fetches so far, it has a next step (as long as the model's bound on
\* the number of polls is not reached).
C16_PollerNeverStops ==
    clock < MaxPolls => ENABLED Poller
\* C17 as claimed: the time between the starts of two consecutive fetches is
\* the poll interval, whatever the duration of the fetches.
C17_CadenceIsPollInterval ==
    Len(cd_starts) = 2 => cd_starts[2] - cd_starts[1] = PollInterval
\* After a selection the first frame of the scroll can be drawn.
FirstFrameCanBeDrawn ==
    (pc = "scroll" /\ pos_x = PanelWidth) => ENABLED ScrollFrame

\* C18: mark_message_played never blocks the RenderLoop. Right after a
\* selection, notification dispatched or not and however many workers are
\* pending, the RenderLoop's next step, the first animation frame, can be
\* taken; a step in which a worker ends
\* (answered, failed or timed out) leaves the RenderLoop's variables, the
\* shared state and the notification counts alone; and a worker is started
\* only for an id no worker was started for before, so nothing is retried.
C18_NotifyNeverBlocks ==
    [][/\ FirstFrameCanBeDrawn
       /\ FirstFrameCanBeDrawn'
       /\ (workers' # workers /\ workers' \subseteq workers) =>
              UNCHANGED <<render_vars, shared_state, notified>>
       /\ \A k \in workers' \ workers : notified[k] = 0 /\ pc' = "scroll"]_vars

\* A frame of the second message has been drawn while the workers of both
\* messages are still pending.
C18_Witness ==
    /\ pc = "scroll"
    /\ pos_x < PanelWidth
    /\ Cardinality(workers) = 2
    /\ workers = played_cache
\* C19: at every selection the cursor is a position of the queue
\* (0 <= cursor < length); a reconciliation that leaves the cursor out of
\* range, or the queue empty, sets it to 0, and one that leaves it in range
\* does not change it.
C19_CursorInRange ==
    /\ []((pc = "dispatch" /\ active_messages # <<>>) =>
              (0 <= active_index /\ active_index < Len(active_messages)))
    /\ [][(pc = "apply" /\ pc' = "dispatch" /\ last_update # last_applied_update) =>
              active_index' = IF active_index < Len(active_messages')
                              THEN active_index ELSE 0]_vars

\* The first of two messages was shown (cursor 1), then the second left the
\* feed: the reconciliation has put the cursor back to 0.
C19_Witness ==
    /\ pc = "dispatch"
    /\ last_applied_update = 2
    /\ active_messages = <<mA1>>
    /\ active_index = 0
    /\ played_cache = {<<"a">>}
    /\ rotation = <<>>
\* The ids of queue from position start (counted from 0) on, cyclically.
CyclicIds(queue, start, len) ==
    [i \in 1..len |-> get_message_id(queue[((start + i - 1) % Len(queue)) + 1])]

\* C20: round-robin rotation. The messages shown since the queue last
\* changed (the last n of them, n the length of the queue) are consecutive
\* entries of the queue in cyclic order, the last of them the one at the
\* cursor while it scrolls and the one before the cursor afterwards; so n
\* consecutive Displaying iterations show every message of the queue exactly
\* once. Each Displaying iteration scrolls the body of the message at the
\* cursor and then advances the cursor by one modulo n.
C20_RoundRobin ==
    /\ [](rotation # <<>> =>
            LET n == Len(active_messages)
                last == IF pc = "scroll" THEN active_index
                        ELSE (active_index + n - 1) % n
            IN  /\ Len(rotation) <= n
                /\ rotation = CyclicIds(active_messages,
                                        (last + n - (Len(rotation) - 1)) % n,
                                        Len(rotation)))
    /\ [][(pc = "dispatch" /\ pc' = "scroll") =>
              /\ scrolling_text' = body_of(active_messages[active_index + 1])
              /\ UNCHANGED <<active_messages, active_index>>]_vars
    /\ [][(pc = "scroll" /\ pc' # "scroll") =>
              /\ active_index' = (active_index + 1) % Len(active_messages)
              /\ UNCHANGED active_messages]_vars

\* With two messages in the queue three have been shown in a row: the
\* first, the second, and the first again, which is scrolling.
C20_Witness ==
    /\ pc = "scroll"
    /\ Len(active_messages) = 2
    /\ active_index = 0
    /\ rotation = <<get_message_id(active_messages[2]),
                    get_message_id(active_messages[1])>>
\* In the idle loop with a new poll result landed, the loop can be left.
IdleCanBeLeft ==
    (pc = "idle" /\ shared_state.last_update # last_applied_update) =>
        ENABLED IdleFrame

\* C21: once shared_state's last_update differs from the applied timestamp,
\* the idle loop draws no further frame (the ticker and the panel stay as
\* they are until the loop is left), it can be left at once, whatever
\* remains of the idle time; and the iteration that follows a break reads a
\* last_update that differs from the applied one, so that its apply step
\* reconciles the queue with the messages it read.
C21_IdleEarlyExit ==
    [][/\ IdleCanBeLeft
       /\ IdleCanBeLeft'
       /\ (pc = "idle" /\ shared_state.last_update # last_applied_update) =>
              /\ pc' \in {"idle", "read_messages"}
              /\ UNCHANGED <<ticker_state, panel>>
       /\ (pc = "apply" /\ idle_break) => last_update # last_applied_update
       /\ (pc = "apply" /\ idle_break /\ pc' = "dispatch") =>
              /\ last_applied_update' = last_update
              /\ active_messages' =
                     rebuild_active_messages(active_messages, messages)]_vars

\* The idle loop has drawn the ticker and was left by its break; the
\* iteration that follows is about to apply a snapshot with two messages.
C21_Witness ==
    /\ pc = "apply"
    /\ idle_break
    /\ panel = "ticker"
    /\ active_messages = <<>>
    /\ messages = <<mA1, mC>>
TickerDelay == 7

\* scroll_delay_sec: the default (0.03 s), shorter than the ticker's delay,
\* and a delay longer than the ticker's.
ScrollDelays ==
    {3, 10}

\* fallback_idle_seconds: no idle time, and an idle time of some frames.
IdleTimes ==
    {0, 15}

DisplaySettings ==
    [panel_cols : 1 .. MaxPanelWidth,
     scroll_delay_sec : ScrollDelays,
     ticker_scroll_delay_sec : {TickerDelay},
     ticker_gap_px : 0 .. MaxTickerGap,
     fallback_idle_seconds : IdleTimes]

\* A text with the width graphics.DrawText measures for it: the empty text,
\* and a text whose glyphs add up to any width from 0 on.
TextsUpTo(w) ==
    {[text |-> <<>>, width |-> 0]} \cup
        {[text |-> <<"x">>, width |-> n] : n \in 0 .. w}

\* What a frame takes: the sleep of scroll_delay_sec (the time to draw and
\* swap the frame is taken as nothing).
FrameTimes(settings) ==
    {settings.scroll_delay_sec}

ticker_due_wrong_every_frame(ts, settings, t) ==
    TRUE

\* Line 195: the ticker's own delay has elapsed since its last step.
ticker_due(ts, settings, t) ==
    t - ts.last_step >= settings.ticker_scroll_delay_sec

\* Lines 199-202: a stored width of 0 is measured again, and is 0 again.
ticker_width(ts) ==
    IF ts.width <= 0 THEN 0 ELSE ts.width

\* Lines 195-196: the offset after the step of the ticker's cadence.
ticker_stepped(ts, settings, t) ==
    IF ticker_due(ts, settings, t) THEN ts.pos_x - 1 ELSE ts.pos_x

\* Lines 206-207: the first copy is fully off screen.
ticker_wraps(ts, settings, t) ==
    ticker_stepped(ts, settings, t) + ticker_width(ts) < 0

\* Lines 189-208: draw_and_step_ticker called at time t.
draw_and_step_ticker_at(ts, settings, t) ==
    IF ts.text = <<>> THEN ts
    ELSE [text |-> ts.text,
          pos_x |-> IF ticker_wraps(ts, settings, t)
                    THEN ticker_stepped(ts, settings, t) + ticker_width(ts)
                             + settings.ticker_gap_px
                    ELSE ticker_stepped(ts, settings, t),
          width |-> ticker_width(ts),
          last_step |-> IF ticker_due(ts, settings, t) THEN t ELSE ts.last_step]

\* What the frame drawn at time t did to the ticker.
drawn_by(call, ts, settings, t) ==
    [call |-> call,
     frame |-> TRUE,
     due |-> ts.text # <<>> /\ ticker_due(ts, settings, t),
     wrapped |-> ts.text # <<>> /\ ticker_wraps(ts, settings, t)]

no_frame(call) ==
    [call |-> call, frame |-> FALSE, due |-> FALSE, wrapped |-> FALSE]

\* Lines 384-389 for the ticker; the clock starts at a time at which the
\* ticker's first step is due, as time.time() is far from last_step = 0.
InitDisplay ==
    /\ InitProgram
    /\ InitReconcileIdle
    /\ InitFetchIdle
    /\ InitCadenceIdle
    /\ InitPolicyIdle
    /\ InitCloudIdle
    /\ InitRotationIdle
    /\ dp_pc = "top"
    /\ dp_settings \in DisplaySettings
    /\ dp_text \in TextsUpTo(MaxTextWidth)
    /\ dp_pos_x = 0
    /\ dp_end_idle = 0
    /\ dp_frames = 0
    /\ dp_time = TickerDelay
    /\ \E tk \in TextsUpTo(MaxTickerWidth) :
           dp_ticker = [text |-> tk.text, pos_x |-> dp_settings.panel_cols,
                        width |-> tk.width, last_step |-> 0]
    /\ dp_calls = 0
    /\ dp_drawn = no_frame("none")

\* Lines 223-241: scroll_text returns at once for an empty text; otherwise it
\* starts from the right edge.
scroll_text_call ==
    /\ dp_pc = "top"
    /\ dp_calls < MaxCalls
    /\ dp_calls' = dp_calls + 1
    /\ dp_frames' = 0
    /\ dp_drawn' = no_frame("scroll")
    /\ IF dp_text.text = <<>>
       THEN UNCHANGED <<dp_pc, dp_pos_x>>
       ELSE /\ dp_pc' = "scroll"
            /\ dp_pos_x' = dp_settings.panel_cols
    /\ UNCHANGED <<dp_settings, dp_text, dp_end_idle, dp_time, dp_ticker>>
    /\ UNCHANGED <<shared_state, poller_vars, render_vars, workers, observer_vars,
                   rotation, rq_vars, fx_vars, cd_vars, pp_vars,
                   cl_vars, rt_vars>>

scroll_continues_wrong_one_more(x, text_width) ==
    x + text_width >= 0

\* Line 245: the test of the loop of scroll_text.
scroll_continues(x, text_width) ==
    x + text_width > 0

\* Lines 245-260: one frame of the main scroll.
scroll_text_frame ==
    /\ dp_pc = "scroll"
    /\ scroll_continues(dp_pos_x, dp_text.width)
    /\ dp_ticker' = draw_and_step_ticker_at(dp_ticker, dp_settings, dp_time)
    /\ dp_drawn' = drawn_by("scroll", dp_ticker, dp_settings, dp_time)
    /\ dp_pos_x' = dp_pos_x - 1
    /\ dp_frames' = dp_frames + 1
    /\ \E d \in FrameTimes(dp_settings) : dp_time' = dp_time + d
    /\ UNCHANGED <<dp_pc, dp_settings, dp_text, dp_end_idle, dp_calls>>
    /\ UNCHANGED <<shared_state, poller_vars, render_vars, workers, observer_vars,
                   rotation, rq_vars, fx_vars, cd_vars, pp_vars,
                   cl_vars, rt_vars>>

\* Line 245: the loop ends and scroll_text returns.
scroll_text_return ==
    /\ dp_pc = "scroll"
    /\ ~scroll_continues(dp_pos_x, dp_text.width)
    /\ dp_pc' = "top"
    /\ UNCHANGED <<dp_settings, dp_text, dp_pos_x, dp_end_idle, dp_frames,
                   dp_time, dp_ticker, dp_calls, dp_drawn>>
    /\ UNCHANGED <<shared_state, poller_vars, render_vars, workers, observer_vars,
                   rotation, rq_vars, fx_vars, cd_vars, pp_vars,
                   cl_vars, rt_vars>>

\* Line 462: the idle loop is entered.
idle_call ==
    /\ dp_pc = "top"
    /\ dp_calls < MaxCalls
    /\ dp_calls' = dp_calls + 1
    /\ dp_frames' = 0
    /\ dp_drawn' = no_frame("idle")
    /\ dp_pc' = "idle"
    /\ dp_end_idle' = IF dp_settings.fallback_idle_seconds > 0
                      THEN dp_time + dp_settings.fallback_idle_seconds
                      ELSE dp_time
    /\ UNCHANGED <<dp_settings, dp_text, dp_pos_x, dp_time, dp_ticker>>
    /\ UNCHANGED <<shared_state, poller_vars, render_vars, workers, observer_vars,
                   rotation, rq_vars, fx_vars, cd_vars, pp_vars,
                   cl_vars, rt_vars>>

\* Lines 463-477: one frame of the idle loop (no poll result arrives here).
idle_frame ==
    /\ dp_pc = "idle"
    /\ dp_time < dp_end_idle
    /\ dp_ticker' = draw_and_step_ticker_at(dp_ticker, dp_settings, dp_time)
    /\ dp_drawn' = drawn_by("idle", dp_ticker, dp_settings, dp_time)
    /\ dp_frames' = dp_frames + 1
    /\ \E d \in FrameTimes(dp_settings) : dp_time' = dp_time + d
    /\ UNCHANGED <<dp_pc, dp_settings, dp_text, dp_pos_x, dp_end_idle, dp_calls>>
    /\ UNCHANGED <<shared_state, poller_vars, render_vars, workers, observer_vars,
                   rotation, rq_vars, fx_vars, cd_vars, pp_vars,
                   cl_vars, rt_vars>>

\* Line 463: the idle time is over.
idle_return ==
    /\ dp_pc = "idle"
    /\ dp_time >= dp_end_idle
    /\ dp_pc' = "top"
    /\ UNCHANGED <<dp_settings, dp_text, dp_pos_x, dp_end_idle, dp_frames,
                   dp_time, dp_ticker, dp_calls, dp_drawn>>
    /\ UNCHANGED <<shared_state, poller_vars, render_vars, workers, observer_vars,
                   rotation, rq_vars, fx_vars, cd_vars, pp_vars,
                   cl_vars, rt_vars>>

NextDisplay ==
    \/ scroll_text_call
    \/ scroll_text_frame
    \/ scroll_text_return
    \/ idle_call
    \/ idle_frame
    \/ idle_return

DisplaySpec ==
    InitDisplay /\ [][NextDisplay]_vars

\* C23: the main scroll terminates. While scroll_text is in its loop the
\* offset is the panel width W less the frames drawn and offset + T is not
\* negative, so no more than W + T frames are drawn; the loop can always go
\* on or return; and when it has returned for a text of measured width T it
\* has drawn exactly W + T frames and offset + T <= 0.
C23_ScrollTerminates ==
    /\ dp_pc = "scroll" =>
           /\ dp_pos_x = dp_settings.panel_cols - dp_frames
           /\ dp_pos_x + dp_text.width >= 0
           /\ ENABLED (scroll_text_frame \/ scroll_text_return)
           /\ dp_pos_x + dp_text.width <= 0 <=> ENABLED scroll_text_return
    /\ (dp_pc = "top" /\ dp_drawn.call = "scroll" /\ dp_text.text # <<>>) =>
           /\ dp_frames = dp_settings.panel_cols + dp_text.width
           /\ dp_pos_x + dp_text.width <= 0

\* scroll_text has returned after drawing W + T frames, for a panel and a
\* text wider than one pixel.
C23_Witness ==
    /\ dp_pc = "top"
    /\ dp_drawn.call = "scroll"
    /\ dp_drawn.frame
    /\ dp_settings.panel_cols >= 2
    /\ dp_text.width >= 2
    /\ dp_frames = dp_settings.panel_cols + dp_text.width
\* Column c of the panel shows one of the two copies of the ticker text
\* drawn at x1 = pos_x and x2 = x1 + width + gap (lines 211-215).
TickerCovers(c) ==
    LET x1 == dp_ticker.pos_x
        x2 == x1 + dp_ticker.width + dp_settings.ticker_gap_px
    IN  \/ x1 <= c /\ c < x1 + dp_ticker.width
        \/ x2 <= c /\ c < x2 + dp_ticker.width

\* The columns c .. c + n - 1 are on the panel and all blank.
BlankRun(c, n) ==
    /\ c >= 0
    /\ c + n - 1 <= dp_settings.panel_cols - 1
    /\ \A d \in c .. (c + n - 1) : ~TickerCovers(d)

\* C24: the ticker loops without a visible blank gap. In every frame drawn
\* with a ticker text of a width of one pixel or more, no run of more than
\* gap blank columns of the panel lies to the right of the end of the first
\* copy, that is between or after the repetitions.
C24_NoBlankGap ==
    (dp_drawn.frame /\ dp_ticker.text # <<>> /\ dp_ticker.width >= 1) =>
        \A c \in 0 .. (dp_settings.panel_cols - 1) :
            c >= dp_ticker.pos_x + dp_ticker.width =>
                ~BlankRun(c, dp_settings.ticker_gap_px + 1)
\* The step is a frame of the main scroll or of the idle loop: both call
\* draw_and_step_ticker and then sleep.
FrameDrawn ==
    dp_time' # dp_time

\* Line 195, written out: the time since the ticker's last step.
TickerElapsed ==
    dp_time - dp_ticker.last_step

\* C29 as stated: on each call of draw_and_step_ticker the ticker offset is
\* one less after the call if at least ticker_scroll_delay_sec has elapsed
\* since the ticker's last step, and is unchanged otherwise.
C29_OffsetStepsOnEachCall ==
    [][FrameDrawn =>
           dp_ticker'.pos_x =
               IF TickerElapsed >= dp_settings.ticker_scroll_delay_sec
               THEN dp_ticker.pos_x - 1
               ELSE dp_ticker.pos_x]_vars

\* C29, amended: the ticker has its own cadence. On each call of
\* draw_and_step_ticker with a ticker text, in a frame of the main scroll or
\* of the idle loop and whatever the main scroll delay is, the offset is
\* stepped by exactly one pixel if at least ticker_scroll_delay_sec has
\* elapsed since the ticker's last step, which is then this call, and is not
\* stepped otherwise; the offset after the call is the stepped offset, or the
\* stepped offset plus width + gap when the call wraps. With an empty ticker
\* text the call changes nothing.
C29_TickerCadence ==
    [][FrameDrawn =>
           LET due == TickerElapsed >= dp_settings.ticker_scroll_delay_sec
               stepped == IF due THEN dp_ticker.pos_x - 1 ELSE dp_ticker.pos_x
               period == dp_ticker.width + dp_settings.ticker_gap_px
           IN  /\ dp_drawn'.call \in {"scroll", "idle"}
               /\ dp_time' - dp_time = dp_settings.scroll_delay_sec
               /\ IF dp_ticker.text = <<>>
                  THEN dp_ticker' = dp_ticker
                  ELSE /\ dp_ticker'.pos_x =
                              IF stepped + dp_ticker.width < 0
                              THEN stepped + period ELSE stepped
                       /\ dp_ticker'.last_step =
                              IF due THEN dp_time ELSE dp_ticker.last_step
                       /\ dp_drawn'.due = due]_vars

\* An idle frame in which the ticker stepped, after idle frames in which it
\* did not because the main scroll delay is shorter than the ticker's.
C29_Witness ==
    /\ dp_drawn.call = "idle"
    /\ dp_drawn.frame
    /\ dp_drawn.due
    /\ ~dp_drawn.wrapped
    /\ dp_settings.scroll_delay_sec < dp_settings.ticker_scroll_delay_sec
    /\ dp_frames >= 3
    /\ dp_ticker.text # <<>>
    /\ dp_ticker.pos_x < dp_settings.panel_cols - 1
\* A step of the RenderLoop in an iteration that has read screen_muted as
\* true (line 404).
MutedIterationStep ==
    /\ screen_muted
    /\ pc \in {"read_last_update", "apply", "dispatch"}
    /\ pc' # pc

RemainingFrameCanBeDrawn ==
    (pc = "scroll" /\ pos_x + DrawTextWidth(scrolling_text) > 0) =>
        ENABLED ScrollFrame

\* C26: mute is checked only between messages. A main scroll in progress
\* can always draw its next frame, also while shared_state says muted; its
\* steps draw a frame of the message, one pixel further, or return once
\* offset + width <= 0, and none of them reads the mute flag or blanks the
\* panel. The panel is blanked only by the mute branch of a RenderLoop
\* iteration, which has read screen_muted as true.
C26_MuteBetweenMessages ==
    [][/\ RemainingFrameCanBeDrawn
       /\ RemainingFrameCanBeDrawn'
       /\ (pc = "scroll" /\ pc' # "scroll") =>
              /\ pc' = "read_messages"
              /\ pos_x + DrawTextWidth(scrolling_text) <= 0
              /\ UNCHANGED panel
       /\ (pc = "scroll" /\ pos_x' # pos_x) =>
              /\ pos_x' = pos_x - 1
              /\ panel' = "message"
       /\ pc = "scroll" => UNCHANGED <<screen_muted, active_messages>>
       /\ (pc = "scroll" /\ pc' = "scroll") => UNCHANGED active_index
       /\ (panel' = "blank" /\ panel # "blank") =>
              pc = "dispatch" /\ screen_muted]_vars

\* A main scroll is in progress, with a frame drawn and a frame left to
\* draw, while shared_state says muted: this iteration of the RenderLoop read
\* the flag before it was set.
C26_Witness ==
    /\ pc = "scroll"
    /\ pos_x < PanelWidth
    /\ pos_x + DrawTextWidth(scrolling_text) > 0
    /\ panel = "message"
    /\ shared_state.screen_muted
    /\ ~screen_muted
\* The RenderLoop applies the result of a failed poll: the timestamp read at
\* line 405 is new and is the one of a poll cycle that published what
\* fetch_live_messages returns on failure (lines 115-117).
AppliesFailedPoll ==
    /\ pc = "apply"
    /\ pc' = "dispatch"
    /\ last_update # last_applied_update
    /\ published[last_update] = fetch_live_messages_failed

\* C27: a failed poll is published as no messages and not muted, and once
\* the RenderLoop applies it the active queue is empty, the cursor is 0 and
\* the iteration goes on to Idle, not muted; PlayedSet and the colour map
\* are kept.
C27_FailedPollEmptiesQueue ==
    [][AppliesFailedPoll =>
           /\ active_messages' = <<>>
           /\ active_index' = 0
           /\ ~screen_muted'
           /\ UNCHANGED <<played_cache, message_color_map>>]_vars

\* The Poller is between line 170 and line 172: a publication is in
\* progress.
publishing ==
    p_pc \in {"write_messages", "write_muted", "write_last_update"}

\* The ids of the entries of a feed list that are objects with a non-empty
\* trimmed body and a non-empty id.
valid_ids_of_feed(msgs) ==
    {get_message_id(msgs[i]) :
         i \in {j \in 1..Len(msgs) : is_dict(msgs[j]) /\ Valid(msgs[j])}}

\* C34: whenever the timestamp the RenderLoop has applied is the current
\* last_update of shared_state and no publication is in progress, the ids
\* of the active queue are the valid ids of the current messages of
\* shared_state, and the mute flag of the loop is the current screen_muted
\* of shared_state.
C34_AppliedIsCurrent ==
    (last_applied_update = shared_state.last_update /\ ~publishing) =>
        /\ IdSet(active_messages) = valid_ids_of_feed(shared_state.messages)
        /\ screen_muted = shared_state.screen_muted

\* The messages of the publication whose timestamp the RenderLoop has
\* recorded as applied: the most recent publication it has taken up.
applied_publication ==
    published[last_applied_update].messages

\* C35: the RenderLoop reconciles against the most recent publication only.
\* Where it selects and while it scrolls, the ids of the active queue are
\* the valid ids of the publication whose timestamp it has applied, so that
\* a message present only in a snapshot overwritten before that one is not
\* in the queue and is not the message displayed.
C35_OnlyLatestApplied ==
    pc \in {"dispatch", "scroll"} =>
        /\ IdSet(active_messages) = valid_ids_of_feed(applied_publication)
        /\ pc = "scroll" =>
               get_message_id(active_messages[active_index + 1]) \in
                   valid_ids_of_feed(applied_publication)
\* The ids of the previous queue that the feed still has with a body.
PreservedIds ==
    IdSet(rq_active) \cap ValidIds(rq_fetched)

\* C28 as stated: for every id present in both previousQueue and fetched the
\* result has one entry with that id, the first entry of fetched with that
\* id, and these entries come first, in the order of previousQueue.
C28_FirstOfFetchedKept ==
    rq_pc = "done" =>
        LET both == IdSet(rq_active) \cap IdSet(rq_fetched)
        IN  /\ \A k \in both :
                   /\ Cardinality(ResultEntries(k)) = 1
                   /\ \A i \in ResultEntries(k) :
                          rq_result[i] = rq_fetched[Least(Deriving(rq_fetched, k))]
            /\ Len(rq_result) >= Cardinality(both)
            /\ ids_of(SubSeq(rq_result, 1, Cardinality(both))) =
                   ids_of(FilterByIds(rq_active, both))

\* C28, amended: reconciliation keeps the position of a preserved id but
\* takes its data from the feed. For every id of previousQueue that fetched
\* has with a non-empty trimmed body, the result has one entry with that id,
\* the first entry of fetched with that id and a non-empty trimmed body;
\* these entries come first in the result, in the order of previousQueue.
\* An id of previousQueue that fetched has with blank bodies only is not in
\* the result.
C28_PreservedFresh ==
    rq_pc = "done" =>
        /\ \A k \in PreservedIds :
               /\ Cardinality(ResultEntries(k)) = 1
               /\ \A i \in ResultEntries(k) :
                      rq_result[i] =
                          rq_fetched[Least({j \in Deriving(rq_fetched, k) :
                                               Valid(rq_fetched[j])})]
        /\ Len(rq_result) >= Cardinality(PreservedIds)
        /\ ids_of(SubSeq(rq_result, 1, Cardinality(PreservedIds))) =
               ids_of(FilterByIds(rq_active, PreservedIds))
        /\ \A k \in IdSet(rq_active) \ PreservedIds : ResultEntries(k) = {}

\* Two ids of the previous queue are preserved, the feed lists them the
\* other way round, and one of them comes back with another body: the result
\* has the new body at the old position.
C28_Witness ==
    /\ rq_pc = "done"
    /\ Len(rq_active) = 2
    /\ Len(rq_result) = 2
    /\ ids_of(rq_result) = ids_of(rq_active)
    /\ get_message_id(rq_fetched[1]) = get_message_id(rq_active[2])
    /\ body_of(rq_result[1]) # body_of(rq_active[1])
    /\ rq_result[1] \in Range(rq_fetched)

\* The normalized fetched list: the entries of fetched with a non-empty
\* trimmed body and a non-empty id, each id once, by its first such entry,
\* in the order of fetched.
NormalizedFetched(fetched) ==
    LET first == {i \in 1..Len(fetched) :
                     /\ Valid(fetched[i])
                     /\ \A j \in 1..(i - 1) :
                            Valid(fetched[j]) =>
                                get_message_id(fetched[j]) #
                                    get_message_id(fetched[i])}
    IN  [k \in 1..Cardinality(first) |->
            fetched[CHOOSE i \in first :
                       Cardinality({j \in first : j <= i}) = k]]

\* How often x occurs in the list s.
Occurrences(s, x) ==
    Cardinality({i \in 1..Len(s) : s[i] = x})

IsPermutation(s, t) ==
    /\ Len(s) = Len(t)
    /\ \A x \in Range(s) \cup Range(t) : Occurrences(s, x) = Occurrences(t, x)

\* C33: the result of rebuild_active_messages(previousQueue, fetched) is a
\* permutation of the normalized fetched list, whatever previousQueue is:
\* same entries, same ids, same length; with an empty previousQueue it is
\* the normalized fetched list itself.
C33_PermutationOfFetched ==
    rq_pc = "done" =>
        /\ IsPermutation(rq_result, NormalizedFetched(rq_fetched))
        /\ IsPermutation(ids_of(rq_result),
                         ids_of(NormalizedFetched(rq_fetched)))
        /\ rq_active = <<>> => rq_result = NormalizedFetched(rq_fetched)

\* The feed lists three entries, one of them invalid and one a later
\* duplicate of an id; the previous queue holds the two remaining ids in the
\* other order, and the result has the entries of the normalized list in
\* the order of the previous queue.
C33_Witness ==
    /\ rq_pc = "done"
    /\ Len(rq_fetched) = 3
    /\ Len(rq_result) = 2
    /\ Len(rq_active) = 2
    /\ rq_result # NormalizedFetched(rq_fetched)
    /\ IsPermutation(rq_result, NormalizedFetched(rq_fetched))
    /\ ids_of(rq_result) = ids_of(rq_active)
\* ------------------------------------------------------------------------
\* PolicySpec: apply_profanity_policy (src/cloud/moderation_api/
\* profanity_utils.py, lines 28-107) called once on drawn arguments.
\* ------------------------------------------------------------------------

\* An argument that is None, and an argument with a value.
PyNone ==
    [none |-> TRUE, val |-> <<>>]

Py(v) ==
    [none |-> FALSE, val |-> v]

\* x or default, for default the empty value of x's type.
or_default(x, default) ==
    IF x.none THEN default ELSE x.val

\* The characters of bodies: lower and upper case letters and one that is
\* neither letter nor digit.
BodyChars ==
    {"a", "A", "b", "-"}

Bodies ==
    {PyNone} \cup {Py(b) : b \in ListsUpTo(BodyChars, MaxBody)}

\* profanity_mode: the four modes, modes in other case, and other values.
Modes ==
    {PyNone} \cup
        {Py(m) : m \in {"ANARCHY", "EXPLICIT", "FAMILY", "STARRED", "anarchy",
                        "Explicit", "family", "Starred", "", "STRICT"}}

HardLists ==
    {PyNone, Py(<<>>), Py(<< <<"b">> >>), Py(<< <<"A", "-", "A">> >>),
     Py(<< <<"-">>, <<"b", "b">> >>)}

SoftLists ==
    {PyNone, Py(<<>>), Py(<< <<"a">> >>), Py(<< <<"a", "b">> >>),
     Py(<< <<" ">>, <<"B", "a">> >>), Py(<< <<"a", "-", "b">> >>)}

\* str.upper() on the modes above.
upper(m) ==
    CASE m = "anarchy" -> "ANARCHY"
      [] m = "Explicit" -> "EXPLICIT"
      [] m = "family" -> "FAMILY"
      [] m = "Starred" -> "STARRED"
      [] OTHER -> m

\* str.lower() on one character.
lower_char(c) ==
    CASE c = "A" -> "a"
      [] c = "B" -> "b"
      [] OTHER -> c

lower(text) ==
    [i \in 1..Len(text) |-> lower_char(text[i])]

\* Lines 28-32: lower case, and every character outside a-z0-9 removed.
normalize(text) ==
    LET alnum(c) == c \in {"a", "b"}
    IN  SelectSeq(lower(text), alnum)

\* w in t, for strings.
is_substring(w, t) ==
    \E i \in 1..(Len(t) - Len(w) + 1) : SubSeq(t, i, i + Len(w) - 1) = w

\* Lines 35-42
contains_any(text, words) ==
    \E k \in 1..Len(words) :
        /\ normalize(words[k]) # <<>>
        /\ is_substring(normalize(words[k]), normalize(text))

\* Lines 54-55: every occurrence of w in text from position i on, whatever
\* the case of its letters, replaced from left to right by as many asterisks.
RECURSIVE sub_stars(_, _, _)
sub_stars(text, w, i) ==
    IF i > Len(text) THEN <<>>
    ELSE IF /\ i + Len(w) - 1 <= Len(text)
            /\ lower(SubSeq(text, i, i + Len(w) - 1)) = lower(w)
         THEN [j \in 1..Len(w) |-> "*"] \o sub_stars(text, w, i + Len(w))
         ELSE <<text[i]>> \o sub_stars(text, w, i + 1)

\* Lines 45-56: the soft-banned words starred out one after the other; a
\* word of whitespace only is skipped.
RECURSIVE star_soft_words(_, _)
star_soft_words(text, soft_words) ==
    IF soft_words = <<>> THEN text
    ELSE star_soft_words(
             IF strip(Head(soft_words)) = <<>> THEN text
             ELSE sub_stars(text, Head(soft_words), 1),
             Tail(soft_words))

policy_result(allowed, new_body, reason) ==
    [allowed |-> allowed, new_body |-> new_body, reason |-> reason]

family_rejects_wrong_hard_only(has_hard, has_soft) ==
    has_hard

\* Line 93
family_rejects(has_hard, has_soft) ==
    has_hard \/ has_soft

\* Lines 75-107
apply_profanity_policy(body_arg, mode_arg, hard_banned_words, soft_banned_words) ==
    LET body == or_default(body_arg, <<>>)
        profanity_mode == upper(or_default(mode_arg, ""))
        has_hard == contains_any(body, or_default(hard_banned_words, <<>>))
        has_soft == contains_any(body, or_default(soft_banned_words, <<>>))
    IN  CASE profanity_mode = "ANARCHY" ->
                 policy_result(TRUE, body, "")
          [] profanity_mode = "EXPLICIT" ->
                 IF has_hard
                 THEN policy_result(FALSE, body,
                                    "hard-banned profanity in EXPLICIT mode")
                 ELSE policy_result(TRUE, body, "")
          [] profanity_mode = "FAMILY" ->
                 IF family_rejects(has_hard, has_soft)
                 THEN policy_result(FALSE, body,
                                    "profanity not allowed in FAMILY mode")
                 ELSE policy_result(TRUE, body, "")
          [] profanity_mode = "STARRED" ->
                 IF has_hard
                 THEN policy_result(FALSE, body,
                                    "hard-banned profanity in STARRED mode")
                 ELSE IF has_soft
                 THEN policy_result(TRUE,
                          star_soft_words(body,
                              or_default(soft_banned_words, <<>>)), "")
                 ELSE policy_result(TRUE, body, "")
          [] OTHER ->
                 policy_result(FALSE, body, "unknown profanity_mode")

InitPolicy ==
    /\ InitProgram
    /\ InitReconcileIdle
    /\ InitFetchIdle
    /\ InitCadenceIdle
    /\ InitDisplayIdle
    /\ InitCloudIdle
    /\ InitRotationIdle
    /\ pp_pc = "call"
    /\ pp_body \in Bodies
    /\ pp_mode \in Modes
    /\ pp_hard \in HardLists
    /\ pp_soft \in SoftLists
    /\ pp_result = <<>>

CallPolicy ==
    /\ pp_pc = "call"
    /\ pp_result' = apply_profanity_policy(pp_body, pp_mode, pp_hard, pp_soft)
    /\ pp_pc' = "done"
    /\ UNCHANGED <<pp_body, pp_mode, pp_hard, pp_soft>>
    /\ UNCHANGED <<shared_state, poller_vars, render_vars, workers, observer_vars,
                   rotation, rq_vars, fx_vars, cd_vars, dp_vars,
                   cl_vars, rt_vars>>

NextPolicy ==
    CallPolicy

PolicySpec ==
    InitPolicy /\ [][NextPolicy]_vars

\* The mode the call decides by: the argument in upper case, None as "".
GivenMode ==
    upper(or_default(pp_mode, ""))

\* The body the call decides on: the argument, None as "".
GivenBody ==
    or_default(pp_body, <<>>)

HardFound ==
    contains_any(GivenBody, or_default(pp_hard, <<>>))

SoftFound ==
    contains_any(GivenBody, or_default(pp_soft, <<>>))

\* C30: apply_profanity_policy decides by mode, for every body and word
\* lists. ANARCHY always allows, with the body unchanged; EXPLICIT rejects
\* exactly when a hard-banned word is found; FAMILY rejects exactly when a
\* hard- or soft-banned word is found; STARRED rejects exactly when a
\* hard-banned word is found; any other mode rejects; a rejection returns
\* the body unchanged with a non-empty reason, and an allowed result has an
\* empty reason.
C30_PolicyByMode ==
    pp_pc = "done" =>
        /\ GivenMode = "ANARCHY" =>
               pp_result.allowed /\ pp_result.new_body = GivenBody
        /\ GivenMode = "EXPLICIT" => (~pp_result.allowed <=> HardFound)
        /\ GivenMode = "FAMILY" =>
               (~pp_result.allowed <=> (HardFound \/ SoftFound))
        /\ GivenMode = "STARRED" => (~pp_result.allowed <=> HardFound)
        /\ GivenMode \notin {"ANARCHY", "EXPLICIT", "FAMILY", "STARRED"} =>
               ~pp_result.allowed
        /\ ~pp_result.allowed =>
               pp_result.new_body = GivenBody /\ pp_result.reason # ""
        /\ pp_result.allowed => pp_result.reason = ""

\* FAMILY mode has rejected a body in which only a soft-banned word is
\* found, written in other case and around a hyphen.
C30_Witness ==
    /\ pp_pc = "done"
    /\ GivenMode = "FAMILY"
    /\ SoftFound
    /\ ~HardFound
    /\ ~pp_result.allowed
    /\ pp_result.new_body = <<"A", "-", "b">>
    /\ pp_result.reason = "profanity not allowed in FAMILY mode"

\* C31: whenever apply_profanity_policy allows a body in STARRED mode, the
\* returned body has the length of the given body and _contains_any detects
\* no soft-banned word in it any more.
C31_SoftWordsStarredOut ==
    (pp_pc = "done" /\ GivenMode = "STARRED" /\ pp_result.allowed) =>
        /\ Len(pp_result.new_body) = Len(GivenBody)
        /\ ~contains_any(pp_result.new_body, or_default(pp_soft, <<>>))

\* ------------------------------------------------------------------------
\* CloudSpec: the messages table between the Twilio webhook
\* (src/cloud/twilio_webhook/handler.py) and the moderation API
\* (src/cloud/moderation_api/handler.py). Every Lambda invocation runs on
\* its own, so the invocations interleave; one DynamoDB call is one step,
\* and a call either succeeds or raises.
\* ------------------------------------------------------------------------

\* The MessageSid values of the text messages.
Sids ==
    {"SM1", "SM2"}

\* The Body values Twilio sends: a soft-banned word, a hard-banned word and
\* a clean text.
SmsBodies ==
    {<<"a">>, <<"b">>, <<"-">>}

\* An item of sms_led_messages (lines 84-92 of the webhook; from_number,
\* to_number, twilio_message_sid and created_at play no part here), with the
\* attribute rejection_reason the moderation API adds ("" when absent), and
\* the absence of an item. body is PyNone when the item has no such
\* attribute.
message_item(body, status, rejection_reason) ==
    [present |-> TRUE, body |-> body, status |-> status,
     rejection_reason |-> rejection_reason]

NoItem ==
    [present |-> FALSE, body |-> PyNone, status |-> "", rejection_reason |-> ""]

\* The attributes of the settings item the approve request reads.
SettingsFields ==
    {"profanity_mode", "hard_banned_words", "soft_banned_words"}

\* The item config_id = 'global' of sms_led_settings: the attributes it has
\* and their values (PyNone for an attribute it has not).
settings_item_of(keys, mode, hard, soft) ==
    [present |-> TRUE, keys |-> keys, profanity_mode |-> mode,
     hard_banned_words |-> hard, soft_banned_words |-> soft]

NoSettings ==
    [present |-> FALSE, keys |-> {}, profanity_mode |-> PyNone,
     hard_banned_words |-> PyNone, soft_banned_words |-> PyNone]

\* Line 312: settings_resp.get("Item") or {}
EmptySettings ==
    settings_item_of({}, PyNone, PyNone, PyNone)

\* A JSON number given as profanity_mode, written as its token.
NumberMode ==
    "1"

\* The settings the table starts with: no item, or a deployed one.
InitialSettings ==
    {NoSettings,
     settings_item_of(SettingsFields, Py("FAMILY"), Py(<< <<"b">> >>),
                      Py(<< <<"a">> >>)),
     settings_item_of(SettingsFields, Py("STARRED"), Py(<< <<"b">> >>),
                      Py(<< <<"a">> >>))}

\* The bodies of POST /settings: update_fields of line 234.
SettingsUpdates ==
    {settings_item_of({"profanity_mode"}, Py(m), PyNone, PyNone) :
         m \in {"ANARCHY", "FAMILY", "STARRED", NumberMode}}
    \cup {settings_item_of({"soft_banned_words"}, PyNone, PyNone,
                           Py(<< <<"a">> >>)),
          settings_item_of({"hard_banned_words"}, PyNone, Py(<< <<"b">> >>),
                           PyNone)}

\* dict.get(key, default) on a settings item
settings_get(item, key, default) ==
    IF key \in item.keys THEN item[key] ELSE default

\* Lines 251-260: update_item sets the given attributes, keeps the others,
\* and creates the item when there is none.
settings_updated(item, update_fields) ==
    [present |-> TRUE,
     keys |-> item.keys \cup update_fields.keys,
     profanity_mode |->
         IF "profanity_mode" \in update_fields.keys
         THEN update_fields.profanity_mode ELSE item.profanity_mode,
     hard_banned_words |->
         IF "hard_banned_words" \in update_fields.keys
         THEN update_fields.hard_banned_words ELSE item.hard_banned_words,
     soft_banned_words |->
         IF "soft_banned_words" \in update_fields.keys
         THEN update_fields.soft_banned_words ELSE item.soft_banned_words]

\* The events of POST /messages/approve and /messages/reject: a body that
\* is no JSON object, one without a message_id that is a non-empty string,
\* and one with such a message_id.
ModerationEvents ==
    {[json |-> FALSE, message_id |-> PyNone],
     [json |-> TRUE, message_id |-> PyNone]}
    \cup {[json |-> TRUE, message_id |-> Py(sid)] : sid \in Sids}

\* _response(status_code, body), with auto_rejected "absent" when the body
\* has no such key.
response(status_code, auto_rejected) ==
    [statusCode |-> status_code, auto_rejected |-> auto_rejected]

NoResponse ==
    response(0, "absent")

\* The invocation ended by an exception nothing catches: API Gateway
\* answers 502.
unhandled_exception ==
    response(502, "absent")

\* profanity_utils.py line 76: (profanity_mode or "").upper() on a value
\* that is neither a string nor falsy
raises_AttributeError(profanity_mode) ==
    ~profanity_mode.none /\ profanity_mode.val = NumberMode

\* Lines 317-326: the decision of the policy on a body under a settings
\* item, with the defaults of lines 317-319.
policy_under(body, settings_item) ==
    apply_profanity_policy(
        Py(body),
        settings_get(settings_item, "profanity_mode", Py("ANARCHY")),
        settings_get(settings_item, "hard_banned_words", Py(<<>>)),
        settings_get(settings_item, "soft_banned_words", Py(<<>>)))

InitCloud ==
    /\ InitProgram
    /\ InitReconcileIdle
    /\ InitFetchIdle
    /\ InitCadenceIdle
    /\ InitDisplayIdle
    /\ InitPolicyIdle
    /\ InitRotationIdle
    /\ MESSAGES_TABLE = [sid \in Sids |-> NoItem]
    /\ SETTINGS_TABLE \in InitialSettings
    /\ twilio_sms = [sid \in Sids |-> PyNone]
    /\ wh_deliveries = 0
    /\ ap_pc = "idle"
    /\ ap_message_id = PyNone
    /\ ap_original_body = <<>>
    /\ ap_policy = <<>>
    /\ ap_response = NoResponse
    /\ ap_requests = 0
    /\ api_requests = 0

program_unchanged ==
    UNCHANGED <<shared_state, poller_vars, render_vars, workers, observer_vars,
                rotation, rq_vars, fx_vars, cd_vars, dp_vars, pp_vars,
                rt_vars>>

approve_unchanged ==
    UNCHANGED <<ap_pc, ap_message_id, ap_original_body, ap_policy,
                ap_response, ap_requests>>

\* twilio_webhook/handler.py lines 37-108: Twilio delivers the text message
\* twilio_sid, for the first time or again, and the handler puts the item:
\* put_item replaces the item of that key. table.put_item may raise, and
\* nothing is written then.
handler(twilio_sid, body, ok) ==
    /\ wh_deliveries < MaxDeliveries
    /\ wh_deliveries' = wh_deliveries + 1
    /\ twilio_sms[twilio_sid].none \/ twilio_sms[twilio_sid].val = body
    /\ twilio_sms' = [twilio_sms EXCEPT ![twilio_sid] = Py(body)]
    /\ MESSAGES_TABLE' =
           IF ok
           THEN [MESSAGES_TABLE EXCEPT
                     ![twilio_sid] = message_item(Py(body), "pending", "")]
           ELSE MESSAGES_TABLE
    /\ UNCHANGED SETTINGS_TABLE
    /\ UNCHANGED api_requests
    /\ approve_unchanged
    /\ program_unchanged

\* moderation_api/handler.py lines 215-264
handle_post_settings(update_fields, ok) ==
    /\ ap_requests + api_requests < MaxRequests
    /\ api_requests' = api_requests + 1
    /\ SETTINGS_TABLE' =
           IF ok THEN settings_updated(SETTINGS_TABLE, update_fields)
           ELSE SETTINGS_TABLE
    /\ UNCHANGED <<MESSAGES_TABLE, twilio_sms, wh_deliveries>>
    /\ approve_unchanged
    /\ program_unchanged

\* Lines 389-433: update_item sets the status of the item of that key, and
\* creates the item when there is none.
handle_post_message_reject(event, ok) ==
    /\ ap_requests + api_requests < MaxRequests
    /\ api_requests' = api_requests + 1
    /\ MESSAGES_TABLE' =
           IF event.json /\ ~event.message_id.none /\ ok
           THEN [MESSAGES_TABLE EXCEPT
                     ![event.message_id.val] =
                         message_item(@.body, "rejected", @.rejection_reason)]
           ELSE MESSAGES_TABLE
    /\ UNCHANGED <<SETTINGS_TABLE, twilio_sms, wh_deliveries>>
    /\ approve_unchanged
    /\ program_unchanged

\* Lines 282-295: the request is taken and its body parsed.
approve_parse(event) ==
    /\ ap_pc \in {"idle", "responded"}
    /\ ap_requests + api_requests < MaxRequests
    /\ ap_requests' = ap_requests + 1
    /\ ap_message_id' = event.message_id
    /\ ap_original_body' = <<>>
    /\ ap_policy' = <<>>
    /\ IF event.json /\ ~event.message_id.none
       THEN ap_pc' = "get_message" /\ ap_response' = NoResponse
       ELSE ap_pc' = "responded" /\ ap_response' = response(400, "absent")
    /\ UNCHANGED <<MESSAGES_TABLE, SETTINGS_TABLE, twilio_sms, wh_deliveries,
                   api_requests>>
    /\ program_unchanged

\* Lines 297-307
approve_get_message(ok) ==
    /\ ap_pc = "get_message"
    /\ LET msg_item == MESSAGES_TABLE[ap_message_id.val]
       IN  IF ~ok
           THEN /\ ap_pc' = "responded"
                /\ ap_response' = response(500, "absent")
                /\ UNCHANGED ap_original_body
           ELSE IF ~msg_item.present
           THEN /\ ap_pc' = "responded"
                /\ ap_response' = response(404, "absent")
                /\ UNCHANGED ap_original_body
           ELSE /\ ap_pc' = "get_settings"
                /\ ap_original_body' = or_default(msg_item.body, <<>>)
                /\ UNCHANGED ap_response
    /\ UNCHANGED <<MESSAGES_TABLE, SETTINGS_TABLE, twilio_sms, wh_deliveries,
                   ap_message_id, ap_policy, ap_requests, api_requests>>
    /\ program_unchanged

\* Lines 309-326: the settings are read, the empty item standing for an
\* item that is absent or that could not be read, and the policy decides.
approve_get_settings(ok) ==
    /\ ap_pc = "get_settings"
    /\ LET settings_item ==
               IF ok /\ SETTINGS_TABLE.present THEN SETTINGS_TABLE
               ELSE EmptySettings
           profanity_mode ==
               settings_get(settings_item, "profanity_mode", Py("ANARCHY"))
       IN  IF raises_AttributeError(profanity_mode)
           THEN /\ ap_pc' = "responded"
                /\ ap_response' = unhandled_exception
                /\ UNCHANGED ap_policy
           ELSE /\ ap_pc' = "update"
                /\ ap_policy' = policy_under(ap_original_body, settings_item)
                /\ UNCHANGED ap_response
    /\ UNCHANGED <<MESSAGES_TABLE, SETTINGS_TABLE, twilio_sms, wh_deliveries,
                   ap_message_id, ap_original_body, ap_requests, api_requests>>
    /\ program_unchanged

\* Lines 335-344 and 360-378: what update_item writes to the item.
approve_written(item, policy, original_body) ==
    IF ~policy.allowed
    THEN message_item(item.body, "rejected", policy.reason)
    ELSE message_item(
             IF policy.new_body # original_body THEN Py(policy.new_body)
             ELSE item.body,
             "approved", item.rejection_reason)

\* Lines 328-387
approve_update(ok) ==
    /\ ap_pc = "update"
    /\ ap_pc' = "responded"
    /\ IF ok
       THEN /\ MESSAGES_TABLE' =
                   [MESSAGES_TABLE EXCEPT
                        ![ap_message_id.val] =
                            approve_written(@, ap_policy, ap_original_body)]
            /\ ap_response' =
                   response(200, IF ap_policy.allowed THEN "false" ELSE "true")
       ELSE /\ UNCHANGED MESSAGES_TABLE
            /\ ap_response' = response(500, "absent")
    /\ UNCHANGED <<SETTINGS_TABLE, twilio_sms, wh_deliveries, ap_message_id,
                   ap_original_body, ap_policy, ap_requests, api_requests>>
    /\ program_unchanged

\* Lines 267-387
handle_post_message_approve ==
    \/ \E event \in ModerationEvents : approve_parse(event)
    \/ \E ok \in BOOLEAN : approve_get_message(ok)
    \/ \E ok \in BOOLEAN : approve_get_settings(ok)
    \/ \E ok \in BOOLEAN : approve_update(ok)

NextCloud ==
    \/ \E twilio_sid \in Sids, body \in SmsBodies, ok \in BOOLEAN :
           handler(twilio_sid, body, ok)
    \/ \E update_fields \in SettingsUpdates, ok \in BOOLEAN :
           handle_post_settings(update_fields, ok)
    \/ \E event \in ModerationEvents, ok \in BOOLEAN :
           handle_post_message_reject(event, ok)
    \/ handle_post_message_approve

CloudSpec ==
    InitCloud /\ [][NextCloud]_vars

\* The settings in force: the item of the table, or none of its attributes.
current_settings ==
    IF SETTINGS_TABLE.present THEN SETTINGS_TABLE ELSE EmptySettings

\* The policy, under the settings in force, does not allow the stored body
\* of this message.
disallowed(sid) ==
    /\ MESSAGES_TABLE[sid].present
    /\ ~raises_AttributeError(
            settings_get(current_settings, "profanity_mode", Py("ANARCHY")))
    /\ ~policy_under(or_default(MESSAGES_TABLE[sid].body, <<>>),
                     current_settings).allowed

\* A step of an approve request.
ApproveStep ==
    ap_pc' # ap_pc \/ ap_requests' # ap_requests

\* C32: an approve request that stores to a message whose body the current
\* profanity_mode and word lists disallow stores the status rejected, never
\* approved, and answers with auto_rejected = true; an approve request with
\* a missing message_id or for an unknown message changes no stored message.
C32_ApproveEnforcesPolicy ==
    [][ApproveStep =>
           /\ (ap_pc = "update" /\ ap_response'.statusCode = 200
                   /\ disallowed(ap_message_id.val)) =>
                  /\ MESSAGES_TABLE'[ap_message_id.val].status = "rejected"
                  /\ ap_response'.auto_rejected = "true"
           /\ \A sid \in Sids :
                  (disallowed(sid) /\ MESSAGES_TABLE'[sid].status = "approved")
                      => MESSAGES_TABLE[sid].status = "approved"
           /\ ap_response'.statusCode \in {400, 404} =>
                  UNCHANGED MESSAGES_TABLE]_vars

\* The moderation API has decided on this message.
decided(sid) ==
    MESSAGES_TABLE[sid].status \in {"approved", "rejected"}

\* C38: once the moderation API has set the status of a message to approved
\* or rejected, a later delivery of the Twilio webhook for the same
\* MessageSid neither sets the status back to pending nor replaces the
\* stored body.
C38_DecisionNotUndone ==
    [][wh_deliveries' # wh_deliveries =>
           \A sid \in Sids :
               (decided(sid) /\ ~twilio_sms[sid].none) =>
                   /\ MESSAGES_TABLE'[sid].status # "pending"
                   /\ MESSAGES_TABLE'[sid].body = MESSAGES_TABLE[sid].body]_vars

\* ------------------------------------------------------------------------
\* RotationSpec: the iterations of run() (src/pi/renderer/main.py, lines
\* 401-477) with a Poller that may have published before any iteration,
\* without a bound on the number of polls. An iteration reads shared_state
\* and reconciles, then is muted, or selects and scrolls a message, or idles.
\* ------------------------------------------------------------------------

\* The message whose displays are followed.
Watched ==
    get_message_id(mB)

\* What the loop may read at line 403: lists of messages of three ids.
RotationFeeds ==
    ListsUpTo({mA1, mB, mC}, MaxFetched)

\* Since the watched message was last selected (on: it has been selected):
\* the ids selected, and the ids in the queue all the time.
between(on, selected, present) ==
    [on |-> on, selected |-> selected, present |-> present]

InitRotation ==
    /\ InitProgram
    /\ InitReconcileIdle
    /\ InitFetchIdle
    /\ InitCadenceIdle
    /\ InitDisplayIdle
    /\ InitPolicyIdle
    /\ InitCloudIdle
    /\ rt_pc = "read"
    /\ rt_screen_muted = FALSE
    /\ rt_active_messages = <<>>
    /\ rt_active_index = 0
    /\ rt_stays = FALSE
    /\ rt_between = between(FALSE, {}, {})

rotation_unchanged ==
    UNCHANGED <<shared_state, poller_vars, render_vars, workers, observer_vars,
                rotation, rq_vars, fx_vars, cd_vars, dp_vars, pp_vars, cl_vars>>

\* The id of the message at the cursor.
rt_msg_id ==
    get_message_id(rt_active_messages[rt_active_index + 1])

\* Lines 403-423: the loop reads screen_muted and, when new says that
\* last_update differs from the applied timestamp, reconciles with the list
\* read. Once the feed has reached the point from which on the watched
\* message stays and the screen is not muted, every list read holds the
\* watched message and the flag read is false.
rotation_read(new, fetched, muted, point) ==
    /\ rt_pc = "read"
    /\ rt_stays => (~muted /\ (new => Watched \in IdSet(fetched)))
    /\ rt_screen_muted' = muted
    /\ rt_active_messages' =
           IF new THEN rebuild_active_messages(rt_active_messages, fetched)
           ELSE rt_active_messages
    /\ rt_active_index' =
           IF new THEN index_after_rebuild(rt_active_index, rt_active_messages')
           ELSE rt_active_index
    /\ rt_stays' =
           (rt_stays \/ (point /\ new /\ ~muted /\ Watched \in IdSet(fetched)))
    /\ rt_between' =
           [rt_between EXCEPT !.present = @ \cap IdSet(rt_active_messages')]
    /\ rt_pc' = "dispatch"
    /\ rotation_unchanged

\* Lines 425-430
rotation_muted ==
    /\ rt_pc = "dispatch"
    /\ mute_observed(rt_screen_muted, rt_active_messages)
    /\ rt_pc' = "read"
    /\ UNCHANGED <<rt_screen_muted, rt_active_messages, rt_active_index,
                   rt_stays, rt_between>>
    /\ rotation_unchanged

\* Lines 432-452: the message at the cursor is taken and, its body not
\* being empty, scrolled.
rotation_select ==
    /\ rt_pc = "dispatch"
    /\ ~mute_observed(rt_screen_muted, rt_active_messages)
    /\ rt_active_messages # <<>>
    /\ IF body_of(rt_active_messages[rt_active_index + 1]) # <<>>
       THEN /\ rt_pc' = "scroll"
            /\ rt_between' =
                   IF rt_msg_id = Watched
                   THEN between(TRUE, {}, IdSet(rt_active_messages))
                   ELSE IF rt_between.on
                   THEN [rt_between EXCEPT !.selected = @ \cup {rt_msg_id}]
                   ELSE rt_between
            /\ UNCHANGED rt_active_index
       ELSE /\ rt_pc' = "read"
            /\ rt_active_index' =
                   index_after_show(rt_active_index, rt_active_messages)
            /\ UNCHANGED rt_between
    /\ UNCHANGED <<rt_screen_muted, rt_active_messages, rt_stays>>
    /\ rotation_unchanged

\* Lines 452-458: scroll_text has returned and the cursor advances.
rotation_scroll_done ==
    /\ rt_pc = "scroll"
    /\ rt_active_index' = index_after_show(rt_active_index, rt_active_messages)
    /\ rt_pc' = "read"
    /\ UNCHANGED <<rt_screen_muted, rt_active_messages, rt_stays, rt_between>>
    /\ rotation_unchanged

\* Lines 460-477: no message; the idle loop ends.
rotation_idle ==
    /\ rt_pc = "dispatch"
    /\ ~mute_observed(rt_screen_muted, rt_active_messages)
    /\ rt_active_messages = <<>>
    /\ rt_pc' = "read"
    /\ UNCHANGED <<rt_screen_muted, rt_active_messages, rt_active_index,
                   rt_stays, rt_between>>
    /\ rotation_unchanged

NextRotation ==
    \/ \E new, muted, point \in BOOLEAN, fetched \in RotationFeeds :
           rotation_read(new, fetched, muted, point)
    \/ rotation_muted
    \/ rotation_select
    \/ rotation_scroll_done
    \/ rotation_idle

RotationSpec ==
    InitRotation /\ [][NextRotation]_vars

\* run() is the main thread: it always takes its next step, and each step
\* ends (scroll_text and the idle loop return, the sleeps are finite).
FairRotationSpec ==
    RotationSpec /\ WF_vars(NextRotation)

\* The watched message is being scrolled.
WatchedDisplayed ==
    rt_pc = "scroll" /\ rt_msg_id = Watched

\* C36: no starvation. From the point on from which the screen is not muted
\* and the watched message is in every fetched list, the queue being at most
\* MaxFetched long, the watched message is displayed, and displayed again
\* and again, whatever other messages arrive and leave.
C36_NoStarvation ==
    rt_stays ~> WatchedDisplayed

\* The watched message is displayed from the last of three positions, after
\* the point from which on it stays.
C36_Witness ==
    /\ rt_stays
    /\ WatchedDisplayed
    /\ Len(rt_active_messages) = 3
    /\ rt_active_index = 2

\* C37: between two consecutive displays of the watched message, every
\* other message that has been in the active queue all the time is displayed
\* at least once, also when reconciliations remove entries before the cursor
\* or shrink the queue below the cursor.
C37_FairRotation ==
    [][(rt_pc = "dispatch" /\ rt_pc' = "scroll" /\ rt_msg_id = Watched
            /\ rt_between.on) =>
           (rt_between.present \ {Watched}) \subseteq rt_between.selected]_vars
====
